---- MODULE Spec2Model ----
(***************************************************************************)
(* A model of the parquet-extractor service: the remote corpus extractor   *)
(* extract_wikir_to_pdf (src/api.py), the job store and the background     *)
(* tasks of the HTTP facade (src/api.py), the polling client               *)
(* (src/api_client.py) and the seeded sampling of extract_papers           *)
(* (src/main.py).                                                          *)
(*                                                                         *)
(* The module holds several specifications over one set of variables:      *)
(*   Spec        two consecutive calls of extract_wikir_to_pdf             *)
(*   JobSpec     the job store, the background tasks and polling clients   *)
(*   FairJobSpec JobSpec with the fairness thread scheduling gives         *)
(*   SampleSpec  extract_papers calls sharing the module-level generator   *)
(*   PapersSpec  one parquet job: extract_papers from the table to the     *)
(*               files, inside extract_parquet.process_file                *)
(*   CisiSpec    convert_cisi_to_markdown from the text to the files       *)
(*   RenderSpec  the title and body texts of one wikir document or one     *)
(*               Wikipedia article, up to the calls of the PDF renderer    *)
(*   AnalysisSpec analyze_wikir_dataset with count_tokens, document by     *)
(*               document                                                  *)
(* A specification leaves the variables of the other parts at their idle   *)
(* values.                                                                 *)
(***************************************************************************)
EXTENDS Integers, Sequences, FiniteSets, TLC

VARIABLES
    \* ---- extract_wikir_to_pdf (src/api.py:193-383) ----
    dataset,        \* the documents docs_iter() yields: a sequence of doc_id (0: the doc has no doc_id attribute)
    req_limit,      \* the limit argument: [isNone, n]
    via_endpoint,   \* TRUE when the call comes from POST /api/extract/wikir
    faulty,         \* TRUE when the environment (loader, renderer, disk) may raise
    run,            \* 1: first call, 2: second call with the same arguments
    wpc,            \* position in the function: idle, load, loop, returned
    limit,          \* the local limit after the safety clamp
    i,              \* the loop index of enumerate(docs_iter)
    doc_count,      \* local doc_count
    files_created,  \* local files_created (doc_ids of the file names)
    errors,         \* local errors
    dir,            \* output_dir: the doc_ids whose wikir_{doc_id}.pdf exists
    summary,        \* the dict the current call returned
    prev,           \* the dict the first call returned, and what it processed
    processed,      \* history: indices whose processing was started in this call
    threw,          \* history: indices at which pdf rendering or saving raised in this call
    other_err,      \* history: indices with any other error (no doc_id, title preparation)
    writes,         \* history: number of pdf.output calls that wrote a file in this call
    job_record,     \* what process_dataset stored in jobs[job_id] from the returned dict
    \* ---- the job store and its users (src/api.py, src/api_client.py) ----
    jobs,           \* the module-level dict jobs: job id -> [type, status, fields]
    task,           \* per job: the background thread's position and locals
    client,         \* per job: the api_client --wait loop: none, get, sleep, exited
    \* ---- extract_papers and the module-level generator (src/main.py) ----
    rng,            \* the state of the generator behind random.seed / random.sample
    threaded,       \* TRUE: the calls run in background threads; FALSE: one after the other
    calls,          \* per call of extract_papers: arguments, position, sample and output
    \* ---- extract_papers in detail (src/main.py:9-105) ----
    papers,         \* the call's arguments (df, num_papers, seed), position, locals and the files it wrote
    \* ---- convert_cisi_to_markdown (src/main.py:107-192) ----
    cisi,           \* the call's input text, position, locals and the files it wrote
    \* ---- the texts handed to the PDF renderer (src/api.py:256-339, 718-839) ----
    pdf,            \* one document or article: its source, position and the cells emitted
    \* ---- analyze_wikir_dataset (src/api.py:491-579) ----
    analysis        \* the call's documents and limit, position, locals and the result

wvars == <<dataset, req_limit, via_endpoint, faulty, run, wpc, limit, i, doc_count,
           files_created, errors, dir, summary, prev, processed, threw, other_err, writes,
           job_record>>

jvars == <<jobs, task, client>>

svars == <<rng, threaded, calls>>

pvars == <<papers>>

cvars == <<cisi>>

rvars == <<pdf>>

avars == <<analysis>>

vars == <<wvars, jvars, svars, pvars, cvars, rvars, avars>>

\* What the actions of one part leave unchanged.
not_wikir == <<jvars, svars, pvars, cvars, rvars, avars>>
not_jobs == <<wvars, svars, pvars, cvars, rvars, avars>>
not_sample == <<wvars, jvars, pvars, cvars, rvars, avars>>

\* ------------------------------------------------------------------ bounds

\* Longest small dataset, over which every failure pattern is explored.
MaxDocs == 2
\* Largest doc_id of a small dataset.
MaxDocId == 2
\* Number of jobs posted to the facade. A job's thread reads and writes only
\* its own entry of jobs, so jobs do not influence each other.
MaxJobs == 1
\* Most article titles fetch_ww2_articles returns.
MaxTitles == 2
\* Rows of the largest parquet file.
MaxRows == 3
\* Largest seed argument.
MaxSeed == 1
\* Most lines of a generated CISI file.
MaxLines == 3

\* ------------------------------------------------------------- helpers

Min(a, b) == IF a < b THEN a ELSE b
Max(a, b) == IF a > b THEN a ELSE b

Take(s, n) == IF Len(s) <= n THEN s ELSE SubSeq(s, 1, n)

\* ------------------------------------------- extract_wikir_to_pdf

MAX_DOCS == 500

NoLimit == [isNone |-> TRUE, n |-> 0]
Lim(n) == [isNone |-> FALSE, n |-> n]

NoSummary == [status |-> "none"]

\* Mutant of ClampLimit: only a missing limit is replaced by the ceiling.
ClampLimitNoneOnly(l) == IF l.isNone THEN MAX_DOCS ELSE l.n

\* if limit is None or limit > MAX_DOCS: limit = MAX_DOCS
ClampLimit(l) == IF l.isNone \/ l.n > MAX_DOCS THEN MAX_DOCS ELSE l.n

\* POST /api/extract/wikir: limit = 100, or min(int(form limit), 500)
EndpointLimit(form) == IF form.isNone THEN Lim(100) ELSE Lim(Min(form.n, 500))

HasDocId(doc) == doc > 0

Err(kind, idx) == [kind |-> kind, index |-> idx]

\* What one pass of the loop body does to the locals:
\*   errs     the entries appended to errors
\*   counted  files_created.append(filename); doc_count += 1
\*   wrote    pdf.output(file_path) wrote the file
\*   cont     the pass ended in `continue` (the additional limit check is skipped)
\*   escaped  an exception left the per-document try
Pass(errs, counted, wrote, cont) ==
    [errs |-> errs, counted |-> counted, wrote |-> wrote, cont |-> cont, escaped |-> FALSE]

\* if not hasattr(doc, 'doc_id'): errors.append(...); continue
OnNoDocId(idx) == Pass(<<Err("no_doc_id", idx)>>, FALSE, FALSE, TRUE)

\* Mutant of OnExists: the existing file is generated again.
OnExistsRewrites(idx) == Pass(<<>>, TRUE, TRUE, TRUE)

\* if os.path.exists(file_path): files_created.append(filename); doc_count += 1; continue
OnExists(idx) == Pass(<<>>, TRUE, FALSE, TRUE)

\* except Exception as doc_error: errors.append(...); continue
OnDocError(idx, before) == Pass(before \o <<Err("processing", idx)>>, FALSE, FALSE, TRUE)

\* except Exception as text_error: errors.append(...), then the minimal content
OnTextError(idx) == <<Err("adding_text", idx)>>

\* Mutant of OnPdfError: the exception of pdf.output is recorded and raised again.
OnPdfErrorEscapes(idx, before) ==
    [Pass(before \o <<Err("saving", idx)>>, FALSE, FALSE, FALSE) EXCEPT !.escaped = TRUE]

\* except Exception as pdf_error: errors.append(...)
OnPdfError(idx, before) == Pass(before \o <<Err("saving", idx)>>, FALSE, FALSE, FALSE)

\* pdf.output(file_path); files_created.append(filename); doc_count += 1
OnSaved(idx, before) == Pass(before, TRUE, TRUE, FALSE)

\* The outcomes of the calls the loop body makes for a new document:
\*   title   title preparation and pdf.cell (lines 256-283): ok | raises
\*   text    pdf.multi_cell of the body (321-330): ok | raises
\*   minimal pdf.multi_cell of the minimal content (334): ok | raises
\*   save    pdf.output (337): ok | raises
Outcomes ==
    [title : {"ok", "raises"}, text : {"ok", "raises"},
     minimal : {"ok", "raises"}, save : {"ok", "raises"}]

AllOk == [title |-> "ok", text |-> "ok", minimal |-> "ok", save |-> "ok"]

\* The outcome with the calls that are never reached set to ok.
Normal(o) ==
    IF o.title = "raises" THEN [AllOk EXCEPT !.title = "raises"]
    ELSE IF o.text = "raises" /\ o.minimal = "raises"
         THEN [AllOk EXCEPT !.text = "raises", !.minimal = "raises"]
    ELSE IF o.text = "ok" THEN [o EXCEPT !.minimal = "ok"]
    ELSE o

\* The body of the for loop, lines 238-346.
LoopBody(doc, idx, exists, o) ==
    IF ~HasDocId(doc) THEN OnNoDocId(idx)
    ELSE IF exists THEN OnExists(idx)
    ELSE IF o.title = "raises" THEN OnDocError(idx, <<>>)
    ELSE LET textErrs == IF o.text = "raises" THEN OnTextError(idx) ELSE <<>>
         IN  IF o.text = "raises" /\ o.minimal = "raises" THEN OnDocError(idx, textErrs)
             ELSE IF o.save = "raises" THEN OnPdfError(idx, textErrs)
             ELSE OnSaved(idx, textErrs)

\* The dict of lines 363-373.
Summary(dc, fc, errs, out_limit) ==
    [status |-> IF dc > 0 THEN "success" ELSE "warning",
     docs_extracted |-> dc,
     files_created |-> Len(fc),
     files |-> Take(fc, 100),
     total_files |-> Len(fc),
     errors_count |-> Len(errs),
     errors |-> Take(errs, 20),
     limit |-> out_limit]

\* The dict of lines 379-383.
ErrorSummary == [status |-> "error"]

ERRORS_SHOWN == 20

\* Nothing is stored yet.
NoRecord == [status |-> "none"]

\* Lines 428-439: jobs[job_id]["status"], and when result["errors"] is not
\* empty, jobs[job_id]["errors_count"] and jobs[job_id]["errors"].
JobRecord(result) ==
    IF result.status # "error" /\ result.errors # <<>>
    THEN [status |-> result.status, with_errors |-> TRUE,
          errors_count |-> Len(result.errors),
          errors |-> Take(result.errors, ERRORS_SHOWN)]
    ELSE [status |-> result.status, with_errors |-> FALSE]

\* ---- inputs

SmallDatasets == UNION {[1..n -> 0..MaxDocId] : n \in 0..MaxDocs}
\* Datasets around the safety ceiling, every document with its own doc_id.
BigDatasets == {[k \in 1..n |-> k] : n \in {MAX_DOCS, MAX_DOCS + 1}}
\* A dataset with more failing documents than the returned dict lists: no
\* document has a doc_id.
FailingDatasets == {[k \in 1..(ERRORS_SHOWN + 1) |-> 0]}

DirectLimits == {NoLimit} \cup {Lim(n) : n \in (-1..(MaxDocs + 1)) \cup {MAX_DOCS, MAX_DOCS + 1}}
EndpointLimits == {EndpointLimit(f) : f \in DirectLimits}

\* The locals and the history before a call.
WikirLocals ==
    /\ run = 1
    /\ limit = 0
    /\ i = 0
    /\ doc_count = 0
    /\ files_created = <<>>
    /\ errors = <<>>
    /\ dir = {}
    /\ summary = NoSummary
    /\ prev = [summary |-> NoSummary, processed |-> {}, dir |-> {}]
    /\ processed = {}
    /\ threw = {}
    /\ other_err = {}
    /\ writes = 0
    /\ job_record = NoRecord

\* A caller is about to call extract_wikir_to_pdf on an empty output directory.
WikirInit ==
    /\ dataset \in SmallDatasets \cup BigDatasets \cup FailingDatasets
    /\ via_endpoint \in BOOLEAN
    /\ req_limit \in IF via_endpoint THEN EndpointLimits ELSE DirectLimits
    /\ faulty \in IF Len(dataset) <= MaxDocs THEN BOOLEAN ELSE {FALSE}
    /\ wpc = "idle"
    /\ WikirLocals

\* No call of extract_wikir_to_pdf is modelled.
WikirIdle ==
    /\ dataset = <<>>
    /\ via_endpoint = FALSE
    /\ req_limit = NoLimit
    /\ faulty = FALSE
    /\ wpc = "off"
    /\ WikirLocals

\* jobs = {}
JobsIdle ==
    /\ jobs = <<>>
    /\ task = <<>>
    /\ client = <<>>

\* extract_papers is not called.
SampleIdle ==
    /\ rng = 0
    /\ threaded = FALSE
    /\ calls = <<>>

\* extract_papers is not followed row by row.
PapersIdle == papers = [pc |-> "off"]

\* convert_cisi_to_markdown is not called.
CisiIdle == cisi = [pc |-> "off"]

\* No text is followed to the PDF renderer.
PdfIdle == pdf = [pc |-> "off"]

\* analyze_wikir_dataset is not called.
AnalysisIdle == analysis = [pc |-> "off"]

Init ==
    WikirInit /\ JobsIdle /\ SampleIdle /\ PapersIdle /\ CisiIdle /\ PdfIdle /\ AnalysisIdle

\* Lines 205-214: the safety clamp.
Call ==
    /\ wpc = "idle"
    /\ limit' = ClampLimit(req_limit)
    /\ wpc' = "load"
    /\ UNCHANGED <<dataset, req_limit, via_endpoint, faulty, run, i, doc_count,
                   files_created, errors, dir, summary, prev, processed, threw,
                   other_err, writes, job_record,
                   not_wikir>>

\* Lines 216-229: ir_datasets.load and docs_iter.
LoadDataset ==
    /\ wpc = "load"
    /\ wpc' = "loop"
    /\ i' = 0
    /\ doc_count' = 0
    /\ files_created' = <<>>
    /\ errors' = <<>>
    /\ UNCHANGED <<dataset, req_limit, via_endpoint, faulty, run, limit, dir, summary,
                   prev, processed, threw, other_err, writes, job_record,
                   not_wikir>>

\* Lines 375-383: the load raised.
LoadFails ==
    /\ wpc = "load"
    /\ faulty
    /\ wpc' = "returned"
    /\ summary' = ErrorSummary
    /\ UNCHANGED <<dataset, req_limit, via_endpoint, faulty, run, limit, i, doc_count,
                   files_created, errors, dir, prev, processed, threw, other_err, writes, job_record,
                   not_wikir>>

\* One pass of the for loop, lines 232-351, for document i.
ProcessDoc ==
    /\ wpc = "loop"
    /\ i < Len(dataset)
    /\ i < limit
    /\ \E o \in (IF faulty THEN {Normal(x) : x \in Outcomes} ELSE {AllOk}) :
        LET doc == dataset[i + 1]
            r == LoopBody(doc, i, doc \in dir, o)
            reached == HasDocId(doc) /\ doc \notin dir
            dc == IF r.counted THEN doc_count + 1 ELSE doc_count
        IN  /\ processed' = processed \cup {i}
            /\ threw' = IF reached /\ o.title = "ok" /\ (o.text = "raises" \/ o.save = "raises")
                        THEN threw \cup {i} ELSE threw
            /\ other_err' = IF ~HasDocId(doc) \/ (reached /\ o.title = "raises")
                            THEN other_err \cup {i} ELSE other_err
            /\ errors' = errors \o r.errs
            /\ doc_count' = dc
            /\ files_created' = IF r.counted THEN Append(files_created, doc) ELSE files_created
            /\ dir' = IF r.wrote THEN dir \cup {doc} ELSE dir
            /\ writes' = IF r.wrote THEN writes + 1 ELSE writes
            /\ IF r.escaped
               THEN /\ wpc' = "returned"
                    /\ summary' = ErrorSummary
                    /\ i' = i
               ELSE IF ~r.cont /\ dc >= limit
               THEN /\ wpc' = "returned"
                    /\ summary' = Summary(dc, files_created', errors', limit)
                    /\ i' = i
               ELSE /\ wpc' = "loop"
                    /\ summary' = summary
                    /\ i' = i + 1
    /\ UNCHANGED <<dataset, req_limit, via_endpoint, faulty, run, limit, prev, job_record,
                   not_wikir>>

\* The loop ends: the iterator is exhausted, or `if i >= limit: break`; lines 353-373.
LoopExit ==
    /\ wpc = "loop"
    /\ (i >= Len(dataset) \/ i >= limit)
    /\ wpc' = "returned"
    /\ summary' = Summary(doc_count, files_created, errors, limit)
    /\ UNCHANGED <<dataset, req_limit, via_endpoint, faulty, run, limit, i, doc_count,
                   files_created, errors, dir, prev, processed, threw, other_err, writes, job_record,
                   not_wikir>>

\* The caller runs the function a second time with the same arguments.
Rerun ==
    /\ wpc = "returned"
    /\ run = 1
    /\ run' = 2
    /\ prev' = [summary |-> summary, processed |-> processed, dir |-> dir]
    /\ wpc' = "idle"
    /\ summary' = NoSummary
    /\ processed' = {}
    /\ threw' = {}
    /\ other_err' = {}
    /\ writes' = 0
    /\ job_record' = NoRecord
    /\ UNCHANGED <<dataset, req_limit, via_endpoint, faulty, limit, i, doc_count,
                   files_created, errors, dir, not_wikir>>

\* extract_wikir.process_dataset, lines 425-440: the thread stores the
\* returned dict in the job.
RecordJob ==
    /\ wpc = "returned"
    /\ via_endpoint
    /\ job_record = NoRecord
    /\ job_record' = JobRecord(summary)
    /\ UNCHANGED <<dataset, req_limit, via_endpoint, faulty, run, wpc, limit, i, doc_count,
                   files_created, errors, dir, summary, prev, processed, threw,
                   other_err, writes, not_wikir>>

Next == Call \/ LoadDataset \/ LoadFails \/ ProcessDoc \/ LoopExit \/ Rerun \/ RecordJob

Spec == Init /\ [][Next]_vars

\* ------------------------------------------------------------------
\* The job store, the background tasks and the polling client.

\* The commands of api_client.py that take --wait.
ClientTypes == {"parquet", "cisi", "wikir", "wikir_analysis"}

\* jobs[job_id] = {"id": job_id, "status": "running", "type": ...}
NewJob(type) == [type |-> type, status |-> "running", fields |-> {}]

\* The thread's locals: result is the status of the dict the extractor returned
\* (ok: a dict without a status key), has_errors whether result["errors"] is
\* non-empty, titles/idx/successful/failed the locals of process_ww2_articles.
NewTask(pc) ==
    [pc |-> pc, result |-> "none", has_errors |-> FALSE,
     titles |-> 0, idx |-> 0, successful |-> 0, failed |-> 0]

\* The first statement of each background function.
Entry(type) == IF type = "ww2_wiki" THEN "makedirs" ELSE "extract"

\* Mutant of OnRaise: the exception is not caught and the thread ends.
OnRaiseUncaught(type) == "done"

\* Where an exception raised inside the try block continues: the except clause.
OnRaise(type) == "exc"

\* The last statements of the task once status and its fields are set.
AfterFields(type) == IF type \in {"parquet", "cisi"} THEN "finally" ELSE "done"

\* The POST handlers: the job dict is stored and the thread started.
Post(type, wait) ==
    /\ Len(jobs) < MaxJobs
    /\ wait => type \in ClientTypes
    /\ jobs' = Append(jobs, NewJob(type))
    /\ task' = Append(task, NewTask(Entry(type)))
    /\ client' = Append(client, IF wait THEN "get" ELSE "none")
    /\ UNCHANGED not_jobs

ExtractParquetPost == \E wait \in BOOLEAN : Post("parquet", wait)
ExtractCisiPost == \E wait \in BOOLEAN : Post("cisi", wait)
ExtractWikirPost == \E wait \in BOOLEAN : Post("wikir", wait)
AnalyzeWikirPost == \E wait \in BOOLEAN : Post("wikir_analysis", wait)
ExtractWw2Post == \E wait \in BOOLEAN : Post("ww2_wiki", wait)

SetPc(j, pc) == task' = [task EXCEPT ![j].pc = pc]
SetStatus(j, st) == jobs' = [jobs EXCEPT ![j].status = st]
AddFields(j, fs) == jobs' = [jobs EXCEPT ![j].fields = @ \cup fs]

At(j, type, pc) == j \in 1..Len(jobs) /\ jobs[j].type = type /\ task[j].pc = pc
AtAny(j, pc) == j \in 1..Len(jobs) /\ task[j].pc = pc

\* ---- steps shared by the tasks

\* except Exception as e: jobs[job_id]["status"] = "failed"
ExcStatus(j) ==
    /\ AtAny(j, "exc")
    /\ SetStatus(j, "failed")
    /\ SetPc(j, "exc_error")
    /\ UNCHANGED <<not_jobs, client>>

\* jobs[job_id]["error"] = str(e) (and the traceback, where the task stores it)
ExcError(j) ==
    /\ AtAny(j, "exc_error")
    /\ AddFields(j, IF jobs[j].type \in {"parquet", "cisi"} THEN {"error"}
                    ELSE {"error", "traceback"})
    /\ SetPc(j, AfterFields(jobs[j].type))
    /\ UNCHANGED <<not_jobs, client>>

\* len(os.listdir(output_dir)), then jobs[job_id]["file_count"] = ...
FileCount(j) ==
    /\ AtAny(j, "file_count")
    /\ \/ AddFields(j, {"file_count"}) /\ SetPc(j, AfterFields(jobs[j].type))
       \/ UNCHANGED jobs /\ SetPc(j, OnRaise(jobs[j].type))
    /\ UNCHANGED <<not_jobs, client>>

\* finally: shutil.rmtree(temp_dir)
Finally(j) ==
    /\ AtAny(j, "finally")
    /\ SetPc(j, "done")
    /\ UNCHANGED <<not_jobs, jobs, client>>

\* ---- extract_parquet.process_file and extract_cisi.process_file

\* os.makedirs and extract_papers / convert_cisi_to_markdown: return or raise
FileExtract(j) ==
    /\ (At(j, "parquet", "extract") \/ At(j, "cisi", "extract"))
    /\ \/ SetPc(j, "set_completed")
       \/ SetPc(j, OnRaise(jobs[j].type))
    /\ UNCHANGED <<not_jobs, jobs, client>>

\* jobs[job_id]["status"] = "completed"
FileCompleted(j) ==
    /\ (At(j, "parquet", "set_completed") \/ At(j, "cisi", "set_completed"))
    /\ SetStatus(j, "completed")
    /\ SetPc(j, "file_count")
    /\ UNCHANGED <<not_jobs, client>>

\* ---- extract_wikir.process_dataset

\* result = extract_wikir_to_pdf(...): a summary, an error dict, or a raise
\* (os.makedirs, in the task or at the function's first line)
WikirExtract(j) ==
    /\ At(j, "wikir", "extract")
    /\ \/ \E st \in {"success", "warning"}, he \in BOOLEAN :
             task' = [task EXCEPT ![j].pc = "set_status", ![j].result = st,
                                  ![j].has_errors = he]
       \/ task' = [task EXCEPT ![j].pc = "set_status", ![j].result = "error"]
       \/ SetPc(j, OnRaise("wikir"))
    /\ UNCHANGED <<not_jobs, jobs, client>>

\* jobs[job_id]["status"] = result.get("status", "completed")
WikirStatus(j) ==
    /\ At(j, "wikir", "set_status")
    /\ SetStatus(j, task[j].result)
    /\ SetPc(j, "set_result")
    /\ UNCHANGED <<not_jobs, client>>

\* jobs[job_id]["result"] = result
WikirResult(j) ==
    /\ At(j, "wikir", "set_result")
    /\ AddFields(j, {"result"})
    /\ SetPc(j, IF task[j].result = "error" THEN "set_error"
                ELSE IF task[j].has_errors THEN "set_errors" ELSE "file_count")
    /\ UNCHANGED <<not_jobs, client>>

\* if result.get("status") == "error": jobs[job_id]["error"] = ...; ["traceback"] = ...
WikirError(j) ==
    /\ At(j, "wikir", "set_error")
    /\ AddFields(j, {"error", "traceback"})
    /\ SetPc(j, "file_count")
    /\ UNCHANGED <<not_jobs, client>>

\* if "errors" in result and result["errors"]: errors_count, errors
WikirErrors(j) ==
    /\ At(j, "wikir", "set_errors")
    /\ AddFields(j, {"errors_count", "errors"})
    /\ SetPc(j, "file_count")
    /\ UNCHANGED <<not_jobs, client>>

\* ---- analyze_wikir.process_analysis

\* result = analyze_wikir_dataset(...): the statistics, an error dict, or a raise
AnalysisExtract(j) ==
    /\ At(j, "wikir_analysis", "extract")
    /\ \/ task' = [task EXCEPT ![j].pc = "set_completed", ![j].result = "ok"]
       \/ task' = [task EXCEPT ![j].pc = "set_failed", ![j].result = "error"]
       \/ SetPc(j, OnRaise("wikir_analysis"))
    /\ UNCHANGED <<not_jobs, jobs, client>>

\* jobs[job_id]["status"] = "failed" for an error dict
AnalysisFailed(j) ==
    /\ At(j, "wikir_analysis", "set_failed")
    /\ SetStatus(j, "failed")
    /\ SetPc(j, "exc_error")
    /\ UNCHANGED <<not_jobs, client>>

\* jobs[job_id]["status"] = "completed"
AnalysisCompleted(j) ==
    /\ At(j, "wikir_analysis", "set_completed")
    /\ SetStatus(j, "completed")
    /\ SetPc(j, "set_result")
    /\ UNCHANGED <<not_jobs, client>>

\* jobs[job_id]["result"] = result
AnalysisResult(j) ==
    /\ At(j, "wikir_analysis", "set_result")
    /\ AddFields(j, {"result"})
    /\ SetPc(j, "done")
    /\ UNCHANGED <<not_jobs, client>>

\* ---- extract_ww2_articles.process_ww2_articles

\* os.makedirs, the existence check and the write test
Ww2Prepare(j) ==
    /\ At(j, "ww2_wiki", "makedirs")
    /\ \/ SetPc(j, "fetch")
       \/ SetPc(j, "abort")
       \/ SetPc(j, OnRaise("ww2_wiki"))
    /\ UNCHANGED <<not_jobs, jobs, client>>

\* titles, fetch_errors = fetch_ww2_articles(limit); if not titles: abort
Ww2Fetch(j) ==
    /\ At(j, "ww2_wiki", "fetch")
    /\ \/ \E n \in 0..MaxTitles :
            IF n = 0
            THEN SetPc(j, "abort") /\ UNCHANGED jobs
            ELSE /\ task' = [task EXCEPT ![j].pc = "download", ![j].titles = n]
                 /\ AddFields(j, {"article_count", "titles"})
       \/ SetPc(j, OnRaise("ww2_wiki")) /\ UNCHANGED jobs
    /\ UNCHANGED <<not_jobs, client>>

\* jobs[job_id]["status"] = "failed" before an early return
Ww2Abort(j) ==
    /\ At(j, "ww2_wiki", "abort")
    /\ SetStatus(j, "failed")
    /\ SetPc(j, "abort_error")
    /\ UNCHANGED <<not_jobs, client>>

\* jobs[job_id]["error"] = ...; return
Ww2AbortError(j) ==
    /\ At(j, "ww2_wiki", "abort_error")
    /\ AddFields(j, {"error"})
    /\ SetPc(j, "done")
    /\ UNCHANGED <<not_jobs, client>>

\* One pass of `for i, title in enumerate(titles)`
Ww2Download(j) ==
    /\ At(j, "ww2_wiki", "download")
    /\ task[j].idx < task[j].titles
    /\ \/ task' = [task EXCEPT ![j].idx = @ + 1, ![j].successful = @ + 1]
       \/ task' = [task EXCEPT ![j].idx = @ + 1, ![j].failed = @ + 1]
    /\ UNCHANGED <<not_jobs, jobs, client>>

\* if successful > 0: status = "completed" else: status = "failed"
Ww2Status(j) ==
    /\ At(j, "ww2_wiki", "download")
    /\ task[j].idx = task[j].titles
    /\ IF task[j].successful > 0
       THEN SetStatus(j, "completed") /\ SetPc(j, "set_counts")
       ELSE SetStatus(j, "failed") /\ SetPc(j, "no_success_error")
    /\ UNCHANGED <<not_jobs, client>>

\* jobs[job_id]["error"] = "Failed to download any articles successfully"
Ww2NoSuccessError(j) ==
    /\ At(j, "ww2_wiki", "no_success_error")
    /\ AddFields(j, {"error"})
    /\ SetPc(j, "set_counts")
    /\ UNCHANGED <<not_jobs, client>>

\* jobs[job_id]["successful"] = successful; jobs[job_id]["failed"] = failed
Ww2Counts(j) ==
    /\ At(j, "ww2_wiki", "set_counts")
    /\ AddFields(j, {"successful", "failed"})
    /\ SetPc(j, "file_count")
    /\ UNCHANGED <<not_jobs, client>>

\* ---- the client's loop, with the GET /api/jobs/<job_id> it sends

\* status = get_job_status(...), which answers jsonify(jobs[job_id]);
\* if status['status'] in ['completed', 'failed']: break
ClientPoll(j) ==
    /\ j \in 1..Len(jobs)
    /\ client[j] = "get"
    /\ client' = [client EXCEPT ![j] =
                     IF jobs[j].status \in {"completed", "failed"} THEN "exited" ELSE "sleep"]
    /\ UNCHANGED <<not_jobs, jobs, task>>

\* time.sleep(2)
ClientSleep(j) ==
    /\ j \in 1..Len(jobs)
    /\ client[j] = "sleep"
    /\ client' = [client EXCEPT ![j] = "get"]
    /\ UNCHANGED <<not_jobs, jobs, task>>

TaskStep(j) ==
    \/ ExcStatus(j) \/ ExcError(j) \/ FileCount(j) \/ Finally(j)
    \/ FileExtract(j) \/ FileCompleted(j)
    \/ WikirExtract(j) \/ WikirStatus(j) \/ WikirResult(j) \/ WikirError(j) \/ WikirErrors(j)
    \/ AnalysisExtract(j) \/ AnalysisFailed(j) \/ AnalysisCompleted(j) \/ AnalysisResult(j)
    \/ Ww2Prepare(j) \/ Ww2Fetch(j) \/ Ww2Abort(j) \/ Ww2AbortError(j) \/ Ww2Download(j)
    \/ Ww2Status(j) \/ Ww2NoSuccessError(j) \/ Ww2Counts(j)

JobInit ==
    WikirIdle /\ JobsIdle /\ SampleIdle /\ PapersIdle /\ CisiIdle /\ PdfIdle /\ AnalysisIdle

JobNext ==
    \/ ExtractParquetPost \/ ExtractCisiPost \/ ExtractWikirPost \/ AnalyzeWikirPost
    \/ ExtractWw2Post
    \/ \E j \in 1..MaxJobs : TaskStep(j) \/ ClientPoll(j) \/ ClientSleep(j)

JobSpec == JobInit /\ [][JobNext]_vars

\* Every started thread keeps being scheduled, and so does every client.
FairJobSpec ==
    /\ JobSpec
    /\ \A j \in 1..MaxJobs :
          WF_vars(TaskStep(j)) /\ WF_vars(ClientPoll(j)) /\ WF_vars(ClientSleep(j))


\* ------------------------------------------------------------------
\* extract_papers: the seeded sample (src/main.py:9-105).

\* The generator behind the random module, as a linear congruential generator
\* over 0..7: one state per process, shared by every thread.
RngStates == 0..7
Advance(s) == (5 * s + 3) % 8

\* Mutant of Reseed: the generator is left as it is.
ReseedKeepsState(s, seed) == s

\* random.seed(seed): the state depends on the seed alone.
Reseed(s, seed) == (3 * seed + 1) % 8

\* One draw below m: the value and the state after it.
RandBelow(s, m) == [value |-> (Advance(s) \div 2) % m, state |-> Advance(s)]

\* random.sample(range(n), k): k draws from a shrinking pool; the chosen
\* 0-based indices in the order drawn, and the state after the draws.
RECURSIVE SampleFrom(_, _, _, _)
SampleFrom(pool, k, s, acc) ==
    IF k = 0 THEN [indices |-> acc, state |-> s]
    ELSE LET d == RandBelow(s, Len(pool))
             j == d.value + 1
             moved == [pool EXCEPT ![j] = pool[Len(pool)]]
         IN  SampleFrom(SubSeq(moved, 1, Len(pool) - 1), k - 1, d.state,
                        Append(acc, pool[j]))

RandomSample(n, k, s) == SampleFrom([x \in 1..n |-> x - 1], k, s, <<>>)

\* Lines 64-70: all rows when fewer rows than num_papers are available, a
\* sample otherwise.
PapersToExtract(num_available, num_papers, s) ==
    IF num_available < num_papers
    THEN [indices |-> [x \in 1..num_available |-> x - 1], state |-> s]
    ELSE RandomSample(num_available, num_papers, s)

\* A parquet file of n rows: row k holds its own title and text.
Table(n) == [k \in 1..n |-> [title |-> k, text |-> k]]

\* Lines 75-103: one file per sampled row, named by ordinal and title.
WriteFiles(df, indices) ==
    [k \in 1..Len(indices) |->
        [name |-> <<k, df[indices[k] + 1].title>>, content |-> df[indices[k] + 1].text]]

\* The two calls the claims compare.
Calls == {1, 2}

CallArgs == [rows : 1..MaxRows, num_papers : 1..MaxRows, seed : 0..MaxSeed]

NewCall(a) ==
    [rows |-> a.rows, num_papers |-> a.num_papers, seed |-> a.seed,
     pc |-> "none", indices |-> <<>>, out |-> <<>>]

Running(c) == calls[c].pc \notin {"none", "done"}

SampleInit ==
    /\ WikirIdle
    /\ JobsIdle
    /\ PapersIdle
    /\ CisiIdle
    /\ PdfIdle
    /\ AnalysisIdle
    /\ rng \in RngStates
    /\ threaded \in BOOLEAN
    /\ calls \in [Calls -> {NewCall(a) : a \in CallArgs}]

\* extract_papers is called: from a thread of the facade while others run, or
\* (not threaded) only once no other call is running.
StartCall(c) ==
    /\ calls[c].pc = "none"
    /\ threaded \/ \A d \in Calls : ~Running(d)
    /\ calls' = [calls EXCEPT ![c].pc = "seed"]
    /\ UNCHANGED <<not_sample, rng, threaded>>

\* random.seed(seed)
SeedStep(c) ==
    /\ calls[c].pc = "seed"
    /\ rng' = Reseed(rng, calls[c].seed)
    /\ calls' = [calls EXCEPT ![c].pc = "load"]
    /\ UNCHANGED <<not_sample, threaded>>

\* df = pd.read_parquet(parquet_file) and the column inference
LoadStep(c) ==
    /\ calls[c].pc = "load"
    /\ calls' = [calls EXCEPT ![c].pc = "sample"]
    /\ UNCHANGED <<not_sample, rng, threaded>>

\* indices = random.sample(range(num_available), num_papers), or the whole frame
SampleStep(c) ==
    /\ calls[c].pc = "sample"
    /\ LET r == PapersToExtract(calls[c].rows, calls[c].num_papers, rng)
       IN  /\ rng' = r.state
           /\ calls' = [calls EXCEPT ![c].pc = "write", ![c].indices = r.indices]
    /\ UNCHANGED <<not_sample, threaded>>

\* the loop writing the files into the call's own, empty output directory
WriteStep(c) ==
    /\ calls[c].pc = "write"
    /\ calls' = [calls EXCEPT ![c].pc = "done",
                              ![c].out = WriteFiles(Table(calls[c].rows), calls[c].indices)]
    /\ UNCHANGED <<not_sample, rng, threaded>>

SampleNext ==
    \E c \in Calls :
        StartCall(c) \/ SeedStep(c) \/ LoadStep(c) \/ SampleStep(c) \/ WriteStep(c)

SampleSpec == SampleInit /\ [][SampleNext]_vars


\* ------------------------------------------------------------------
\* Strings: sequences of one-character strings.

Rep(c, n) == [k \in 1..n |-> c]

Letters ==
    {"a", "b", "c", "d", "e", "f", "g", "h", "i", "j", "k", "l", "m",
     "n", "o", "p", "q", "r", "s", "t", "u", "v", "w", "x", "y", "z",
     "A", "B", "C", "D", "E", "F", "G", "H", "I", "J", "K", "L", "M",
     "N", "O", "P", "Q", "R", "S", "T", "U", "V", "W", "X", "Y", "Z"}

DigitChars == <<"0", "1", "2", "3", "4", "5", "6", "7", "8", "9">>
Digits == {DigitChars[k] : k \in 1..10}

\* The characters str.strip() removes and \s matches.
Whitespace == {" ", "\n", "\t", "\r", "\f"}

\* Characters outside ASCII that str.isalnum() accepts: the letters and digits
\* of every script.
NonAsciiAlnum == {"é"}

\* c.isalnum()
IsAlnum(c) == c \in Letters \cup Digits \cup NonAsciiAlnum

\* sep.join(parts)
RECURSIVE Join(_, _)
Join(sep, parts) ==
    IF parts = <<>> THEN <<>>
    ELSE IF Len(parts) = 1 THEN parts[1]
    ELSE parts[1] \o sep \o Join(sep, Tail(parts))

RECURSIVE LStrip(_)
LStrip(s) == IF s # <<>> /\ s[1] \in Whitespace THEN LStrip(Tail(s)) ELSE s

RECURSIVE RStrip(_)
RStrip(s) ==
    IF s # <<>> /\ s[Len(s)] \in Whitespace THEN RStrip(SubSeq(s, 1, Len(s) - 1)) ELSE s

\* s.strip()
Strip(s) == RStrip(LStrip(s))

\* The position of the first sep in s, or 0.
Find(s, sep) ==
    IF \E k \in 1..Len(s) : s[k] = sep
    THEN CHOOSE k \in 1..Len(s) : s[k] = sep /\ \A h \in 1..(k - 1) : s[h] # sep
    ELSE 0

\* s.split(sep) for a separator of one character
RECURSIVE Split(_, _)
Split(s, sep) ==
    IF Find(s, sep) = 0 THEN <<s>>
    ELSE <<SubSeq(s, 1, Find(s, sep) - 1)>>
             \o Split(SubSeq(s, Find(s, sep) + 1, Len(s)), sep)

\* s.replace(" ", "_")
SpacesToUnderscores(s) == [k \in 1..Len(s) |-> IF s[k] = " " THEN "_" ELSE s[k]]

\* str(n) for n >= 0
RECURSIVE DigitsOf(_)
DigitsOf(n) ==
    IF n < 10 THEN <<DigitChars[n + 1]>>
    ELSE Append(DigitsOf(n \div 10), DigitChars[(n % 10) + 1])

\* s.zfill(width), and f"{n:04d}" as ZFill(str(n), 4)
ZFill(s, width) == IF Len(s) >= width THEN s ELSE Rep("0", width - Len(s)) \o s

\* "".join(c if c.isalnum() or c in " -_" else "_" for c in title), then
\* .strip().replace(" ", "_")[:100]
CleanTitle(title) ==
    LET kept == [k \in 1..Len(title) |->
                    IF IsAlnum(title[k]) \/ title[k] \in {" ", "-", "_"}
                    THEN title[k] ELSE "_"]
    IN  Take(SpacesToUnderscores(Strip(kept)), 100)

\* ------------------------------------------------------------------
\* extract_papers row by row (src/main.py:9-105), called by
\* extract_parquet.process_file (src/api.py:78-94).

\* The values a cell of the frame holds: None/NaN, a str, bytes, an int.
NoneValue == [kind |-> "none", s |-> <<>>, n |-> 0]
StrValue(s) == [kind |-> "str", s |-> s, n |-> 0]
BytesValue(s) == [kind |-> "bytes", s |-> s, n |-> 0]
IntValue(n) == [kind |-> "int", s |-> <<>>, n |-> n]

\* pd.isna(v)
IsNa(v) == v.kind = "none"

\* isinstance(v, str)
IsStr(v) == v.kind = "str"

\* str(v), as the f-strings and str(paper[title_column]) render a value
StrOf(v) ==
    CASE v.kind = "str" -> v.s
      [] v.kind = "int" -> DigitsOf(v.n)
      [] v.kind = "bytes" -> <<"b", "'">> \o v.s \o <<"'">>
      [] OTHER -> <<"N", "o", "n", "e">>

\* possible_columns = ['text', 'content', 'markdown', 'mmd', 'body']
possible_columns ==
    << <<"t", "e", "x", "t">>, <<"c", "o", "n", "t", "e", "n", "t">>,
       <<"m", "a", "r", "k", "d", "o", "w", "n">>, <<"m", "m", "d">>,
       <<"b", "o", "d", "y">> >>

\* for col in ['title', 'name', 'paper_title']
title_columns ==
    << <<"t", "i", "t", "l", "e">>, <<"n", "a", "m", "e">>,
       <<"p", "a", "p", "e", "r", "_", "t", "i", "t", "l", "e">> >>

\* Columns that are neither content nor title candidates by name.
col_foo == <<"f", "o", "o">>
col_bar == <<"b", "a", "r">>

\* content_column = None; a column named '' is as falsy as None.
NoColumn == <<>>

Elems(seq) == {seq[k] : k \in 1..Len(seq)}

\* The position of a column in df.columns.
ColIndex(df, col) == CHOOSE k \in 1..Len(df.columns) : df.columns[k] = col

\* for col in candidates: if col in df.columns: ... = col; break
FirstPresent(candidates, df) ==
    LET hits == {k \in 1..Len(candidates) : candidates[k] \in Elems(df.columns)}
    IN  IF hits = {} THEN NoColumn
        ELSE candidates[CHOOSE k \in hits : \A h \in hits : k <= h]

\* df.empty
Empty(df) == Len(df.columns) = 0 \/ Len(df.data) = 0

\* sample = df[col].iloc[0] if not df.empty else ""
SampleOf(df, k) == IF Empty(df) THEN StrValue(<<>>) ELSE df.data[1][k]

\* df[col].dtype == 'object' and isinstance(sample, str) and len(sample) > 100
TextLike(df, k) ==
    /\ df.dtypes[k] = "object"
    /\ IsStr(SampleOf(df, k))
    /\ Len(SampleOf(df, k).s) > 100

\* Lines 34-49: the content column, or NoColumn.
ContentColumn(df) ==
    LET named == FirstPresent(possible_columns, df)
        like == {k \in 1..Len(df.columns) : TextLike(df, k)}
    IN  IF named # NoColumn THEN named
        ELSE IF like = {} THEN NoColumn
        ELSE df.columns[CHOOSE k \in like : \A h \in like : k <= h]

\* Mutant of InferenceFails: the check of line 51 is missing.
InferenceNeverFails(content_column) == FALSE

\* if not content_column: raise ValueError(...)
InferenceFails(content_column) == content_column = NoColumn

\* Lines 57-61: the title column, or NoColumn.
TitleColumn(df) == FirstPresent(title_columns, df)

Ext == <<".", "m", "d">>

\* Lines 77-83: the file name of the row with 0-based ordinal idx.
FileName(df, title_column, row, idx) ==
    IF title_column # NoColumn
    THEN ZFill(DigitsOf(idx + 1), 4) \o <<"_">>
             \o CleanTitle(StrOf(row[ColIndex(df, title_column)])) \o Ext
    ELSE <<"p", "a", "p", "e", "r", "_">> \o ZFill(DigitsOf(idx + 1), 4) \o Ext

\* Lines 94-97: whether the value of a column that passed line 92 is appended.
Appended(v) ==
    IF IsStr(v) /\ Len(v.s) < 1000 THEN TRUE
    ELSE v.kind # "bytes"

\* Lines 91-97: the columns (positions) whose line is appended to metadata.
MetadataColumns(df, content_column, row) ==
    SelectSeq([k \in 1..Len(df.columns) |-> k],
              LAMBDA k : /\ df.columns[k] # content_column
                         /\ ~IsNa(row[k])
                         /\ Appended(row[k]))

\* f"{col}: {paper[col]}"
KeyValue(key, value) == key \o <<":", " ">> \o value

Marker == <<"-", "-", "-">>

\* Lines 89-98: the list metadata.
Metadata(df, content_column, row) ==
    LET cols == MetadataColumns(df, content_column, row)
    IN  <<Marker>>
        \o [e \in 1..Len(cols) |-> KeyValue(df.columns[cols[e]], StrOf(row[cols[e]]))]
        \o <<Marker \o <<"\n">> >>

\* Lines 101-103: what the file holds once both writes succeeded.
FileText(df, content_column, row) ==
    Join(<<"\n">>, Metadata(df, content_column, row))
        \o row[ColIndex(df, content_column)].s

\* ---- inputs

\* The contents of a column of n rows, by kind of column.
ColumnKinds == {"long", "late", "big", "titles", "ints", "odd"}

CellOf(kind, r) ==
    CASE kind = "long" -> StrValue(Rep("x", 101))
      [] kind = "late" -> IF r = 1 THEN StrValue(<<>>) ELSE StrValue(Rep("x", 101))
      [] kind = "big" -> StrValue(Rep("x", 1000))
      [] kind = "titles" -> StrValue(CASE r % 3 = 1 -> <<"a", " ", "b">>
                                           [] r % 3 = 2 -> <<" ", " ">>
                                           [] OTHER -> <<"a", "/", "b">>)
      [] kind = "ints" -> IntValue(r)
      [] OTHER -> IF r % 2 = 1 THEN NoneValue ELSE BytesValue(<<"x">>)

\* The dtype pandas gives the column.
DtypeOf(kind) == IF kind = "ints" THEN "int64" ELSE "object"

\* The column names of the parquet files.
\* [foo, bar], [body, text], [title, text], [name, foo]
Layouts ==
    {<<col_foo, col_bar>>, <<possible_columns[5], possible_columns[1]>>,
     <<title_columns[1], possible_columns[1]>>, <<title_columns[2], col_foo>>}

\* pd.read_parquet(parquet_file): columns, dtypes and the rows in stored order.
Frame(columns, kinds, n) ==
    [columns |-> columns,
     dtypes |-> [k \in 1..Len(columns) |-> DtypeOf(kinds[k])],
     data |-> [r \in 1..n |-> [k \in 1..Len(columns) |-> CellOf(kinds[k], r)]]]

Frames ==
    {Frame(l, kinds, n) : l \in Layouts, kinds \in [1..2 -> ColumnKinds], n \in 0..MaxRows}

\* num_papers = int(request.form.get('num_papers', 1000)), seed likewise
PapersArgs == [df : Frames, num_papers : (-1)..(MaxRows + 1), seed : 0..MaxSeed]

\* The thread of a parquet job is about to call extract_papers on an empty
\* output directory.
PapersInit ==
    /\ WikirIdle
    /\ CisiIdle
    /\ PdfIdle
    /\ AnalysisIdle
    /\ rng \in RngStates
    /\ threaded = FALSE
    /\ calls = <<>>
    /\ jobs = <<NewJob("parquet")>>
    /\ task = <<NewTask(Entry("parquet"))>>
    /\ client = <<"none">>
    /\ \E a \in PapersArgs :
          papers = [df |-> a.df, num_papers |-> a.num_papers, seed |-> a.seed,
                    pc |-> "call", content_column |-> NoColumn,
                    title_column |-> NoColumn, papers_to_extract |-> <<>>,
                    i |-> 0, written |-> <<>>]

not_papers == <<wvars, jobs, client, threaded, calls, cvars, rvars, avars>>

\* An exception leaves extract_papers and reaches process_file's handler.
PapersRaise ==
    /\ papers' = [papers EXCEPT !.pc = "raised"]
    /\ task' = [task EXCEPT ![1].pc = OnRaise("parquet")]

\* Lines 20-23: os.makedirs and random.seed(seed).
PapersCall ==
    /\ papers.pc = "call"
    /\ task[1].pc = "extract"
    /\ rng' = Reseed(rng, papers.seed)
    /\ papers' = [papers EXCEPT !.pc = "load"]
    /\ UNCHANGED <<not_papers, task>>

\* Lines 27-61: read_parquet, the content column (or the ValueError) and the
\* title column.
PapersLoad ==
    /\ papers.pc = "load"
    /\ LET cc == ContentColumn(papers.df)
       IN  IF InferenceFails(cc)
           THEN PapersRaise
           ELSE /\ papers' = [papers EXCEPT !.pc = "sample", !.content_column = cc,
                                            !.title_column = TitleColumn(papers.df)]
                /\ UNCHANGED task
    /\ UNCHANGED <<not_papers, rng>>

\* Lines 64-70: the rows to extract; random.sample raises ValueError for a
\* negative sample size.
PapersSample ==
    /\ papers.pc = "sample"
    /\ LET num_available == Len(papers.df.data)
       IN  IF num_available >= papers.num_papers /\ papers.num_papers < 0
           THEN PapersRaise /\ UNCHANGED rng
           ELSE LET r == PapersToExtract(num_available, papers.num_papers, rng)
                IN  /\ rng' = r.state
                    /\ papers' = [papers EXCEPT !.pc = "write", !.i = 0,
                                                !.papers_to_extract = r.indices]
                    /\ UNCHANGED task
    /\ UNCHANGED not_papers

\* One pass of the loop of lines 75-103. paper[content_column] raises KeyError
\* for a column the frame does not have; f.write(content) raises TypeError for
\* a content that is not a str, after the front matter was written.
PapersWriteRow ==
    /\ papers.pc = "write"
    /\ papers.i < Len(papers.papers_to_extract)
    /\ LET df == papers.df
           at == papers.papers_to_extract[papers.i + 1]
           row == df.data[at + 1]
           filename == FileName(df, papers.title_column, row, papers.i)
       IN  IF papers.content_column \notin Elems(df.columns)
           THEN PapersRaise
           ELSE LET content == row[ColIndex(df, papers.content_column)]
                    front == Join(<<"\n">>, Metadata(df, papers.content_column, row))
                    file == [name |-> filename, row |-> at,
                             columns |-> MetadataColumns(df, papers.content_column, row),
                             body |-> content.s,
                             text |-> IF IsStr(content)
                                      THEN FileText(df, papers.content_column, row)
                                      ELSE front]
                IN  IF IsStr(content)
                    THEN /\ papers' = [papers EXCEPT !.i = @ + 1,
                                                     !.written = Append(@, file)]
                         /\ UNCHANGED task
                    ELSE /\ papers' = [papers EXCEPT !.pc = "raised",
                                                     !.written = Append(@, file)]
                         /\ task' = [task EXCEPT ![1].pc = OnRaise("parquet")]
    /\ UNCHANGED <<not_papers, rng>>

\* The loop is over: extract_papers returns to process_file.
PapersReturn ==
    /\ papers.pc = "write"
    /\ papers.i = Len(papers.papers_to_extract)
    /\ papers' = [papers EXCEPT !.pc = "returned"]
    /\ task' = [task EXCEPT ![1].pc = "set_completed"]
    /\ UNCHANGED <<not_papers, rng>>

PapersNext ==
    \/ PapersCall \/ PapersLoad \/ PapersSample \/ PapersWriteRow \/ PapersReturn
    \/ FileCompleted(1) \/ FileCount(1) \/ ExcStatus(1) \/ ExcError(1) \/ Finally(1)

PapersSpec == PapersInit /\ [][PapersNext]_vars


\* ------------------------------------------------------------------
\* convert_cisi_to_markdown (src/main.py:107-192).

\* The end (exclusive) of the longest run of characters of a class from p.
RECURSIVE RunEnd(_, _, _)
RunEnd(s, p, class) ==
    IF p <= Len(s) /\ s[p] \in class THEN RunEnd(s, p + 1, class) ELSE p

\* r'\.I\s+(\d+)' matched at position p: ".I", whitespace, digits. Both runs
\* are greedy, and no whitespace is a digit.
MarkerAt(s, p) ==
    LET ws == RunEnd(s, p + 2, Whitespace)
        ds == RunEnd(s, ws, Digits)
    IN  [matched |-> /\ p + 1 <= Len(s)
                     /\ s[p] = "."
                     /\ s[p + 1] = "I"
                     /\ ws > p + 2
                     /\ ds > ws,
         id |-> IF ds > ws THEN SubSeq(s, ws, ds - 1) ELSE <<>>,
         end |-> ds]

\* The leftmost match of the pattern in s, or 0.
FirstMarker(s) ==
    LET hits == {p \in 1..Len(s) : MarkerAt(s, p).matched}
    IN  IF hits = {} THEN 0 ELSE CHOOSE p \in hits : \A h \in hits : p <= h

\* re.split(r'\.I\s+(\d+)', content): the text before each match and the
\* group of the match, then the rest.
RECURSIVE ReSplit(_)
ReSplit(s) ==
    IF FirstMarker(s) = 0 THEN <<s>>
    ELSE LET m == MarkerAt(s, FirstMarker(s))
         IN  <<SubSeq(s, 1, FirstMarker(s) - 1), m.id>>
                 \o ReSplit(SubSeq(s, m.end, Len(s)))

\* current_section = None; '' is as falsy as None.
NoSection == <<>>

\* line.startswith('.')
StartsWithDot(line) == line # <<>> /\ line[1] = "."

\* sections[key] = value: a new key goes last, a known key keeps its place.
DictSet(d, key, value) ==
    IF \E k \in 1..Len(d) : d[k].key = key
    THEN [k \in 1..Len(d) |-> IF d[k].key = key THEN [key |-> key, value |-> value] ELSE d[k]]
    ELSE Append(d, [key |-> key, value |-> value])

\* sections.get(key, default)
DictGet(d, key, default) ==
    IF \E k \in 1..Len(d) : d[k].key = key
    THEN d[CHOOSE k \in 1..Len(d) : d[k].key = key].value
    ELSE default

\* '\n'.join(section_content).strip()
SectionText(section_content) == Strip(Join(<<"\n">>, section_content))

\* Mutant of SaveSection: a section met again is stored under a second entry.
SaveSectionAppends(st) ==
    IF st.current_section # NoSection
    THEN [st EXCEPT !.sections = Append(@, [key |-> st.current_section,
                                           value |-> SectionText(st.section_content)]),
                    !.section_content = <<>>]
    ELSE st

\* if current_section: sections[current_section] = ...; section_content = []
SaveSection(st) ==
    IF st.current_section # NoSection
    THEN [st EXCEPT !.sections = DictSet(@, st.current_section,
                                         SectionText(st.section_content)),
                    !.section_content = <<>>]
    ELSE st

\* Lines 146-156: the loop over the lines of doc_content.
RECURSIVE ScanLines(_, _)
ScanLines(lines, st) ==
    IF lines = <<>> THEN st
    ELSE IF StartsWithDot(lines[1])
         THEN ScanLines(Tail(lines),
                        [SaveSection(st) EXCEPT !.current_section = Strip(Tail(lines[1]))])
         ELSE ScanLines(Tail(lines),
                        [st EXCEPT !.section_content = Append(@, lines[1])])

\* Lines 142-160: the dict sections of a record, in insertion order.
Sections(doc_content) ==
    SaveSection(ScanLines(Split(doc_content, "\n"),
                          [sections |-> <<>>, current_section |-> NoSection,
                           section_content |-> <<>>])).sections

code_T == <<"T">>
code_A == <<"A">>
code_W == <<"W">>
code_X == <<"X">>

\* Line 163: f"Document {doc_id}"
DefaultTitle(doc_id) == <<"D", "o", "c", "u", "m", "e", "n", "t", " ">> \o doc_id

\* Line 164: 'Unknown'
DefaultAuthor == <<"U", "n", "k", "n", "o", "w", "n">>

\* Line 170: f"cisi_{doc_id.zfill(4)}_{clean_title}.md"
CisiFileName(doc_id, title) ==
    <<"c", "i", "s", "i", "_">> \o ZFill(doc_id, 4) \o <<"_">> \o CleanTitle(title) \o Ext

\* Lines 181-183: the sections listed after doc_id, title and author.
OtherSections(sections) ==
    SelectSeq(sections, LAMBDA e : e.key \notin {code_T, code_A, code_W, code_X})

\* Lines 173-183: the entries of the front matter, in order.
CisiEntries(doc_id, sections) ==
    << [key |-> <<"d", "o", "c", "_", "i", "d">>, value |-> doc_id],
       [key |-> <<"t", "i", "t", "l", "e">>,
        value |-> DictGet(sections, code_T, DefaultTitle(doc_id))],
       [key |-> <<"a", "u", "t", "h", "o", "r">>,
        value |-> DictGet(sections, code_A, DefaultAuthor)] >>
    \o OtherSections(sections)

\* Lines 173-186: the list markdown.
Markdown(doc_id, sections) ==
    LET entries == CisiEntries(doc_id, sections)
    IN  <<Marker>>
        \o [e \in 1..Len(entries) |-> KeyValue(entries[e].key, entries[e].value)]
        \o <<Marker \o <<"\n">>, DictGet(sections, code_W, <<>>)>>

\* Lines 138-190: the file written for the pair (documents[i], documents[i+1]).
CisiFile(id_piece, content_piece) ==
    LET doc_id == Strip(id_piece)
        doc_content == Strip(content_piece)
        sections == Sections(doc_content)
    IN  [name |-> CisiFileName(doc_id, DictGet(sections, code_T, DefaultTitle(doc_id))),
         doc_id |-> doc_id,
         doc_content |-> doc_content,
         sections |-> sections,
         entries |-> CisiEntries(doc_id, sections),
         body |-> DictGet(sections, code_W, <<>>),
         text |-> Join(<<"\n">>, Markdown(doc_id, sections))]

\* ---- inputs

\* The lines the files are made of.
LineKinds ==
    {<<".", "I", " ", "1">>, <<".", "I", " ", "2">>,
     <<".", "T">>, <<".", "A">>, <<".", "W">>, <<".", "X">>, <<".", "B">>, <<".">>,
     <<"a">>, <<"a", " ", ".", "I", " ", "2">>, <<".", "T", " ", "a">>, <<"é">>}

\* ".I 1\n.T Hello\n.A Bob\n.W Body text\n"
InlineExample ==
    <<".", "I", " ", "1", "\n", ".", "T", " ", "H", "e", "l", "l", "o", "\n",
      ".", "A", " ", "B", "o", "b", "\n",
      ".", "W", " ", "B", "o", "d", "y", " ", "t", "e", "x", "t", "\n">>

CisiInputs ==
    {Join(<<"\n">>, ls) : ls \in UNION {[1..n -> LineKinds] : n \in 0..MaxLines}}
        \cup {InlineExample}

\* convert_cisi_to_markdown is about to be called on an empty output directory.
CisiInit ==
    /\ WikirIdle
    /\ JobsIdle
    /\ SampleIdle
    /\ PapersIdle
    /\ PdfIdle
    /\ AnalysisIdle
    /\ \E c \in CisiInputs :
          cisi = [content |-> c, pc |-> "read", documents |-> <<>>, i |-> 0,
                  written |-> <<>>]

not_cisi == <<wvars, jvars, svars, pvars, rvars, avars>>

\* Lines 116-132: the file is read and split at the document markers.
CisiRead ==
    /\ cisi.pc = "read"
    /\ cisi' = [cisi EXCEPT !.pc = "loop", !.i = 0,
                            !.documents = Tail(ReSplit(cisi.content))]
    /\ UNCHANGED not_cisi

\* One pass of the loop of lines 134-190.
CisiDocument ==
    /\ cisi.pc = "loop"
    /\ cisi.i + 1 < Len(cisi.documents)
    /\ cisi' = [cisi EXCEPT !.i = @ + 2,
                            !.written = Append(@, CisiFile(cisi.documents[cisi.i + 1],
                                                           cisi.documents[cisi.i + 2]))]
    /\ UNCHANGED not_cisi

\* range(0, len(documents), 2) is exhausted, or `if i+1 >= len(documents): break`.
CisiReturn ==
    /\ cisi.pc = "loop"
    /\ cisi.i + 1 >= Len(cisi.documents)
    /\ cisi' = [cisi EXCEPT !.pc = "returned"]
    /\ UNCHANGED not_cisi

CisiNext == CisiRead \/ CisiDocument \/ CisiReturn

CisiSpec == CisiInit /\ [][CisiNext]_vars

\* ------------------------------------------------------------------
\* The texts handed to the PDF renderer: one document of
\* extract_wikir_to_pdf (src/api.py:256-339) and one article of
\* download_wiki_article_to_pdf (src/api.py:718-839).

\* The characters chr(32) .. chr(95), in order.
Printable ==
    <<" ", "!", "\"", "#", "$", "%", "&", "'", "(", ")", "*", "+", ",", "-", ".", "/",
      "0", "1", "2", "3", "4", "5", "6", "7", "8", "9", ":", ";", "<", "=", ">", "?",
      "@", "A", "B", "C", "D", "E", "F", "G", "H", "I", "J", "K", "L", "M", "N", "O",
      "P", "Q", "R", "S", "T", "U", "V", "W", "X", "Y", "Z", "[", "\\", "]", "^", "_">>

\* The characters chr(97) .. chr(126), in order.
PrintableHigh ==
    <<"a", "b", "c", "d", "e", "f", "g", "h", "i", "j", "k", "l", "m", "n", "o", "p",
      "q", "r", "s", "t", "u", "v", "w", "x", "y", "z", "{", "|", "}", "~">>

\* ord(c)
Ord(c) ==
    CASE c = "\t" -> 9
      [] c = "\n" -> 10
      [] c = "\f" -> 12
      [] c = "\r" -> 13
      [] c = "é" -> 233
      [] c = "€" -> 8364
      [] \E k \in 1..Len(Printable) : Printable[k] = c ->
            31 + CHOOSE k \in 1..Len(Printable) : Printable[k] = c
      [] OTHER -> 96 + CHOOSE k \in 1..Len(PrintableHigh) : PrintableHigh[k] = c

TITLE_CHARS == 80

BODY_CHARS == 50000

SUMMARY_CHARS == 500

CHUNK_CHARS == 1000

ATTR_CHARS == 100

\* s[a:b] for 0 <= a and 0 <= b
Slice(s, a, b) == SubSeq(s, a + 1, Min(b, Len(s)))

\* ''.join(c if ord(c) < 128 else r for c in s)
AsciiOr(s, r) == [k \in 1..Len(s) |-> IF Ord(s[k]) < 128 THEN s[k] ELSE r]

\* Mutant of AsciiOr: a character outside ASCII is dropped, not replaced.
AsciiOnly(s, r) == SelectSeq(s, LAMBDA c : Ord(c) < 128)

\* title.encode('latin-1') does not raise
Latin1Encodable(s) == \A k \in 1..Len(s) : Ord(s[k]) < 256

\* s.startswith(prefix)
StartsWith(s, prefix) == Len(s) >= Len(prefix) /\ SubSeq(s, 1, Len(prefix)) = prefix

\* The named character references the texts of the model use.
Entities ==
    << [ref |-> <<"&", "e", "a", "c", "u", "t", "e", ";">>, char |-> "é"],
       [ref |-> <<"&", "e", "u", "r", "o", ";">>, char |-> "€"],
       [ref |-> <<"&", "a", "m", "p", ";">>, char |-> "&"] >>

\* The reference of Entities that starts at position p of s, or 0.
RefAt(s, p) ==
    IF s[p] = "&" /\ \E e \in 1..Len(Entities) : StartsWith(SubSeq(s, p, Len(s)), Entities[e].ref)
    THEN CHOOSE e \in 1..Len(Entities) : StartsWith(SubSeq(s, p, Len(s)), Entities[e].ref)
    ELSE 0

\* html.unescape(s), for the references of Entities: a reference is replaced
\* by its character, which is not read again. References cannot overlap,
\* since "&" is only their first character.
HtmlUnescape(s) ==
    LET inside(k) == \E e \in 1..Len(Entities) :
                        \E p \in Max(1, k - Len(Entities[e].ref) + 1)..(k - 1) : RefAt(s, p) = e
        marked == [k \in 1..Len(s) |->
                      IF s[k] = "&" /\ RefAt(s, k) # 0 THEN Entities[RefAt(s, k)].char
                      ELSE IF inside(k) THEN ""
                      ELSE s[k]]
    IN  SelectSeq(marked, LAMBDA c : c # "")

\* ---- extract_wikir_to_pdf, lines 262-339

\* Lines 262-268: doc.title, else the url, else the doc_id.
WikirTitle(doc) ==
    IF doc.title # <<>> THEN doc.title
    ELSE IF doc.url # <<>> THEN <<"U", "R", "L", ":", " ">> \o doc.url
    ELSE <<"D", "o", "c", "u", "m", "e", "n", "t", " ">> \o doc.doc_id

\* Lines 271-277: title[:80], kept when latin-1 can encode it, else
\* reduced to ASCII.
WikirTitleText(title) ==
    IF Latin1Encodable(Slice(title, 0, TITLE_CHARS))
    THEN Slice(title, 0, TITLE_CHARS)
    ELSE AsciiOr(Slice(title, 0, TITLE_CHARS), "_")

\* Line 302: val[:100] + "..." if len(val) > 100 else val
AttrValue(val) ==
    IF Len(val) > ATTR_CHARS THEN Slice(val, 0, ATTR_CHARS) \o <<".", ".", ".">> ELSE val

\* Lines 296-304: the non-empty string attributes, in the order of dir(doc).
ContentAttrs(doc) ==
    SelectSeq(<< [key |-> <<"d", "o", "c", "_", "i", "d">>, value |-> AttrValue(doc.doc_id)],
                 [key |-> <<"t", "i", "t", "l", "e">>, value |-> AttrValue(doc.title)],
                 [key |-> <<"u", "r", "l">>, value |-> AttrValue(doc.url)] >>,
              LAMBDA a : a.value # <<>>)

\* Lines 288-309: doc.text, else doc.body, else the list of attributes.
WikirContent(doc) ==
    IF doc.text # <<>> THEN doc.text
    ELSE IF doc.body # <<>> THEN doc.body
    ELSE IF ContentAttrs(doc) # <<>>
    THEN <<"A", "v", "a", "i", "l", "a", "b", "l", "e", " ", "a", "t", "t", "r", "i",
          "b", "u", "t", "e", "s", ":", "\n", "\n">>
         \o Join(<<"\n", "\n">>,
                 [a \in 1..Len(ContentAttrs(doc)) |->
                     KeyValue(ContentAttrs(doc)[a].key, ContentAttrs(doc)[a].value)])
    ELSE <<"N", "o", " ", "t", "e", "x", "t", " ", "c", "o", "n", "t", "e", "n", "t",
          " ", "a", "v", "a", "i", "l", "a", "b", "l", "e", " ", "f", "o", "r", " ",
          "t", "h", "i", "s", " ", "d", "o", "c", "u", "m", "e", "n", "t">>

\* Lines 312-319: html.unescape, or the placeholder for an empty content.
Unescaped(content) ==
    IF content # <<>> THEN HtmlUnescape(content) ELSE <<"N", "o", " ", "c", "o", "n", "t", "e", "n", "t", " ", "a", "v", "a", "i",
          "l", "a", "b", "l", "e">>

\* Lines 324-327: reduced to ASCII, then content[:50000].
WikirBodyText(content) == Slice(AsciiOr(Unescaped(content), "_"), 0, BODY_CHARS)

\* Line 334: the text emitted when adding the body raised.
BodyFallback == <<"E", "r", "r", "o", "r", " ", "p", "r", "o", "c", "e", "s", "s", "i", "n",
          "g", " ", "d", "o", "c", "u", "m", "e", "n", "t", " ", "c", "o", "n", "t",
          "e", "n", "t">>

\* Line 283: f"Document ID: {doc.doc_id}"
DocIdLine(doc) == <<"D", "o", "c", "u", "m", "e", "n", "t", " ", "I", "D", ":", " ">> \o doc.doc_id

\* ---- download_wiki_article_to_pdf, lines 772-809

\* Lines 773-775: title[:80], characters outside ASCII replaced by spaces.
WikiTitleText(title) == AsciiOr(Slice(title, 0, TITLE_CHARS), " ")

\* Lines 784-785: f"Summary: {safe_summary}..."
WikiSummaryText(page_summary) ==
    <<"S", "u", "m", "m", "a", "r", "y", ":", " ">> \o AsciiOr(Slice(page_summary, 0, SUMMARY_CHARS), " ") \o <<".", ".", ".">>

\* range(0, stop, step) for stop >= 0 and step > 0
Range(stop, step) == [k \in 1..((stop + step - 1) \div step) |-> (k - 1) * step]

\* Mutant of ContentChunks: the slices are one character short of the step.
ContentChunksShort(content) ==
    [k \in 1..Len(Range(Min(Len(content), BODY_CHARS), CHUNK_CHARS)) |->
        Slice(content, Range(Min(Len(content), BODY_CHARS), CHUNK_CHARS)[k],
              Range(Min(Len(content), BODY_CHARS), CHUNK_CHARS)[k] + CHUNK_CHARS - 1)]

\* Line 793: [content[i:i+1000] for i in range(0, min(len(content), 50000), 1000)]
ContentChunks(content) ==
    [k \in 1..Len(Range(Min(Len(content), BODY_CHARS), CHUNK_CHARS)) |->
        Slice(content, Range(Min(Len(content), BODY_CHARS), CHUNK_CHARS)[k],
              Range(Min(Len(content), BODY_CHARS), CHUNK_CHARS)[k] + CHUNK_CHARS)]

\* Line 802: ''.join(c if ord(c) >= 32 or c in '\n\r\t' else ' ' for c in s)
NoControls(s) ==
    [k \in 1..Len(s) |-> IF Ord(s[k]) >= 32 \/ s[k] \in {"\n", "\r", "\t"} THEN s[k] ELSE " "]

\* Lines 799-802: the two passes over a chunk.
SanitizeChunk(chunk) == NoControls(AsciiOr(chunk, " "))

\* ---- inputs

\* The longest of the short texts.
MaxChars == 3

\* A text of n characters: letters, characters of latin-1 and beyond, a
\* control character, white space.
PatternChars == <<"a", "é", " ", "€", "\f", "\n", "b">>
Pattern(n) == [k \in 1..n |-> PatternChars[((k - 1) % Len(PatternChars)) + 1]]

ShortTexts == {Pattern(n) : n \in 0..MaxChars}

\* Titles: short ones, one of latin-1 only, one around the cut.
Titles == ShortTexts \cup {<<"é", "a">>, Pattern(TITLE_CHARS + 1), <<"a">>}

\* Bodies around the chunk size and around the cut.
LongTexts == {Pattern(n) : n \in {CHUNK_CHARS, CHUNK_CHARS + 1, BODY_CHARS + 1}}

WikirDocs ==
    [doc_id : {<<"7">>}, title : Titles, url : {<<>>, <<"u">>},
     text : {<<>>, <<"a", "&">> \o Entities[1].ref \o Entities[2].ref},
     body : {<<>>, Pattern(MaxChars)}]
        \cup [doc_id : {<<"7">>}, title : {<<>>}, url : {<<>>}, text : {<<>>},
              body : {Pattern(BODY_CHARS + 1)}]

WikiPages ==
    [exists : BOOLEAN, title : Titles, summary : {<<>>, Pattern(MaxChars)},
     text : ShortTexts]
        \cup [exists : {TRUE}, title : {<<"a">>},
              summary : {Pattern(SUMMARY_CHARS + 1)}, text : LongTexts]

\* A cell the renderer was given: pdf.cell or pdf.multi_cell with txt.
Cell(part, txt) == [part |-> part, txt |-> txt]

RenderInit ==
    /\ WikirIdle
    /\ JobsIdle
    /\ SampleIdle
    /\ PapersIdle
    /\ CisiIdle
    /\ AnalysisIdle
    /\ \/ \E d \in WikirDocs :
             pdf = [kind |-> "wikir", pc |-> "title", doc |-> d, cells |-> <<>>,
                    chunks |-> <<>>, idx |-> 0, result |-> "none"]
       \/ \E p \in WikiPages :
             pdf = [kind |-> "wiki", pc |-> "page", doc |-> p, cells |-> <<>>,
                    chunks |-> <<>>, idx |-> 0, result |-> "none"]

not_pdf == <<wvars, jvars, svars, pvars, cvars, avars>>

PdfAt(kind, pc) == pdf.pc # "off" /\ pdf.kind = kind /\ pdf.pc = pc

\* ---- extract_wikir_to_pdf: one document

\* Lines 262-279: pdf.cell(0, 10, txt=title, ln=True); a raise ends the
\* document at `except Exception as doc_error`.
WikirTitleCell ==
    /\ PdfAt("wikir", "title")
    /\ \/ pdf' = [pdf EXCEPT !.pc = "doc_id",
                             !.cells = Append(@, Cell("title", WikirTitleText(WikirTitle(pdf.doc))))]
       \/ pdf' = [pdf EXCEPT !.pc = "done", !.result = "error",
                             !.cells = Append(@, Cell("title", WikirTitleText(WikirTitle(pdf.doc))))]
    /\ UNCHANGED not_pdf

\* Lines 281-283: the line with the document id.
WikirIdCell ==
    /\ PdfAt("wikir", "doc_id")
    /\ pdf' = [pdf EXCEPT !.pc = "body", !.cells = Append(@, Cell("id", DocIdLine(pdf.doc)))]
    /\ UNCHANGED not_pdf

\* Lines 286-334: pdf.multi_cell(0, 10, txt=content); when it raises, the
\* fallback text is emitted.
WikirBodyCell ==
    /\ PdfAt("wikir", "body")
    /\ \/ pdf' = [pdf EXCEPT !.pc = "save",
                             !.cells = Append(@, Cell("body", WikirBodyText(WikirContent(pdf.doc))))]
       \/ pdf' = [pdf EXCEPT !.pc = "save",
                             !.cells = @ \o <<Cell("body", WikirBodyText(WikirContent(pdf.doc))),
                                              Cell("fallback", BodyFallback)>>]
    /\ UNCHANGED not_pdf

\* Lines 336-342: pdf.output(file_path) saves the file or raises.
WikirSave ==
    /\ PdfAt("wikir", "save")
    /\ \E r \in {"saved", "error"} : pdf' = [pdf EXCEPT !.pc = "done", !.result = r]
    /\ UNCHANGED not_pdf

\* ---- download_wiki_article_to_pdf: one article

\* Lines 738-746: the page is fetched; a missing page ends the call.
WikiPage ==
    /\ PdfAt("wiki", "page")
    /\ pdf' = IF pdf.doc.exists THEN [pdf EXCEPT !.pc = "title"]
              ELSE [pdf EXCEPT !.pc = "done", !.result = "error"]
    /\ UNCHANGED not_pdf

\* Lines 772-777: pdf.cell(0, 10, txt=safe_title_text, ln=True)
WikiTitleCell ==
    /\ PdfAt("wiki", "title")
    /\ pdf' = [pdf EXCEPT !.pc = "summary",
                          !.cells = Append(@, Cell("title", WikiTitleText(pdf.doc.title)))]
    /\ UNCHANGED not_pdf

\* Lines 780-785: if summary: pdf.multi_cell(..., txt=f"Summary: ...")
WikiSummaryCell ==
    /\ PdfAt("wiki", "summary")
    /\ pdf' = [pdf EXCEPT !.pc = "split",
                          !.cells = IF pdf.doc.summary # <<>>
                                    THEN Append(@, Cell("summary", WikiSummaryText(pdf.doc.summary)))
                                    ELSE @]
    /\ UNCHANGED not_pdf

\* Line 793: the body is split.
WikiSplit ==
    /\ PdfAt("wiki", "split")
    /\ pdf' = [pdf EXCEPT !.pc = "chunks", !.idx = 0, !.chunks = ContentChunks(pdf.doc.text)]
    /\ UNCHANGED not_pdf

\* One pass of the loop of lines 797-809: pdf.multi_cell(0, 8,
\* txt=sanitized_chunk); when it raises the loop goes on with the next chunk.
WikiChunk ==
    /\ PdfAt("wiki", "chunks")
    /\ pdf.idx < Len(pdf.chunks)
    /\ pdf' = [pdf EXCEPT !.idx = @ + 1,
                          !.cells = Append(@, Cell("body", SanitizeChunk(pdf.chunks[pdf.idx + 1])))]
    /\ UNCHANGED not_pdf

\* Lines 811-837: pdf.output(filepath) and the check of the file.
WikiSave ==
    /\ PdfAt("wiki", "chunks")
    /\ pdf.idx = Len(pdf.chunks)
    /\ \E r \in {"success", "error"} : pdf' = [pdf EXCEPT !.pc = "done", !.result = r]
    /\ UNCHANGED not_pdf

RenderNext ==
    \/ WikirTitleCell \/ WikirIdCell \/ WikirBodyCell \/ WikirSave
    \/ WikiPage \/ WikiTitleCell \/ WikiSummaryCell \/ WikiSplit \/ WikiChunk \/ WikiSave

RenderSpec == RenderInit /\ [][RenderNext]_vars

\* ------------------------------------------------------------------
\* analyze_wikir_dataset and count_tokens (src/api.py:470-579).

UpperLetters ==
    <<"A", "B", "C", "D", "E", "F", "G", "H", "I", "J", "K", "L", "M",
      "N", "O", "P", "Q", "R", "S", "T", "U", "V", "W", "X", "Y", "Z">>

LowerLetters ==
    <<"a", "b", "c", "d", "e", "f", "g", "h", "i", "j", "k", "l", "m",
      "n", "o", "p", "q", "r", "s", "t", "u", "v", "w", "x", "y", "z">>

\* c.lower()
LowerChar(c) ==
    IF \E k \in 1..Len(UpperLetters) : UpperLetters[k] = c
    THEN LowerLetters[CHOOSE k \in 1..Len(UpperLetters) : UpperLetters[k] = c]
    ELSE c

\* Mutant of IsWord: the underscore counts as punctuation.
IsWordNoUnderscore(c) == IsAlnum(c)

\* \w
IsWord(c) == IsAlnum(c) \/ c = "_"

\* \s
IsSpace(c) == c \in Whitespace

\* re.sub(r'[^\w\s]', ' ', text)
PunctuationToSpaces(text) ==
    [k \in 1..Len(text) |-> IF ~IsWord(text[k]) /\ ~IsSpace(text[k]) THEN " " ELSE text[k]]

\* text.lower()
Lower(text) == [k \in 1..Len(text) |-> LowerChar(text[k])]

\* re.split(r'\s+', s): the pieces between the runs of white space, the
\* empty pieces at the two ends included.
RECURSIVE SplitOnSpace(_, _)
SplitOnSpace(s, piece) ==
    IF s = <<>> THEN <<piece>>
    ELSE IF IsSpace(s[1])
    THEN <<piece>> \o SplitOnSpace(SubSeq(s, RunEnd(s, 1, Whitespace), Len(s)), <<>>)
    ELSE SplitOnSpace(Tail(s), Append(piece, s[1]))

\* Lines 481-489.
count_tokens(text) ==
    IF text = <<>> THEN 0
    ELSE Len(SelectSeq(SplitOnSpace(Lower(PunctuationToSpaces(text)), <<>>),
                       LAMBDA t : t # <<>>))

\* `x and ...` for an attribute: None, '' and b'' are falsy.
Truthy(v) == v.kind \in {"str", "bytes"} /\ v.s # <<>>

\* Lines 523-527: doc.text, else doc.body, else "".
ContentOf(doc) ==
    IF Truthy(doc.text) THEN doc.text
    ELSE IF Truthy(doc.body) THEN doc.body
    ELSE StrValue(<<>>)

\* count_tokens(content) raises: re.sub on a value that is not a str.
CountRaises(content) == Truthy(content) /\ ~IsStr(content)

\* Lines 512-516: the counters before the loop.
AnalysisLocals ==
    [doc_count |-> 0, total_tokens |-> 0, token_counts |-> <<>>, errors |-> <<>>]

\* Lines 530-534: the document is counted.
OnCounted(st, tokens) ==
    [st EXCEPT !.token_counts = Append(@, tokens), !.total_tokens = @ + tokens,
               !.doc_count = @ + 1]

\* Mutant of OnCountError: the failed document is counted as one of no tokens.
OnCountErrorCounts(st, idx) ==
    [st EXCEPT !.errors = Append(@, Err("doc", idx)), !.token_counts = Append(@, 0),
               !.doc_count = @ + 1]

\* Lines 541-544: `except Exception as e` inside the loop.
OnCountError(st, idx) == [st EXCEPT !.errors = Append(@, Err("doc", idx))]

\* Line 537: if limit is not None and doc_count >= limit
ReachedLimit(lim, dc) == ~lim.isNone /\ dc >= lim.n

\* min(token_counts) / max(token_counts)
MinOf(counts) == CHOOSE m \in Elems(counts) : \A c \in Elems(counts) : m <= c
MaxOf(counts) == CHOOSE m \in Elems(counts) : \A c \in Elems(counts) : m >= c

\* total_tokens / doc_count as the fraction it is; the float the code
\* computes compares with integers as the fraction does.
Fraction(num, den) == [num |-> num, den |-> den]

\* Lines 547-563: the statistics and the result dict.
Statistics(st) ==
    [status |-> "ok",
     document_count |-> st.doc_count,
     total_tokens |-> st.total_tokens,
     average_tokens_per_doc |-> IF st.doc_count > 0
                                THEN Fraction(st.total_tokens, st.doc_count)
                                ELSE Fraction(0, 1),
     min_tokens |-> IF st.token_counts # <<>> THEN MinOf(st.token_counts) ELSE 0,
     max_tokens |-> IF st.token_counts # <<>> THEN MaxOf(st.token_counts) ELSE 0,
     errors |-> Take(st.errors, 20)]

\* Lines 569-579: the dict returned when the load or the iteration raised.
AnalysisError == [status |-> "error"]

\* ---- inputs

\* The longest dataset analysed.
MaxAnalysed == 3

\* "Hello, World! 123"
HelloWorld == 
    <<"H", "e", "l", "l", "o", ",", " ", "W", "o", "r", "l", "d", "!", " ", "1", "2", "3">>

\* Texts with punctuation, white space at the ends, underscores, letters
\* outside ASCII, and none of them.
TokenTexts ==
    {HelloWorld, <<"a", "_", "b", " ", "é">>, <<" ", "\t", "-">>, <<"_">>,
     <<"-", "a", "\n", "\n", "B", "-", "c", "\r">>, <<"1", ".", "5">>}

\* The documents of the datasets with several documents.
FewDocs ==
    {[text |-> StrValue(HelloWorld), body |-> NoneValue],
     [text |-> StrValue(<<"a", "_", "b", " ", "é">>), body |-> NoneValue],
     [text |-> StrValue(<<>>), body |-> StrValue(<<"a">>)],
     [text |-> NoneValue, body |-> NoneValue],
     [text |-> BytesValue(<<"x">>), body |-> NoneValue]}

AnalysedDatasets ==
    UNION {[1..n -> FewDocs] : n \in 0..MaxAnalysed}
        \cup {<<[text |-> StrValue(t), body |-> NoneValue]>> : t \in TokenTexts}
        \cup {<<[text |-> NoneValue, body |-> BytesValue(<<"x">>)]>>}

\* POST /api/analyze/wikir: limit = None, or int(request.form.get('limit'))
AnalysisLimits == {NoLimit} \cup {Lim(n) : n \in (-1)..(MaxAnalysed + 1)}

AnalysisInit ==
    /\ WikirIdle
    /\ JobsIdle
    /\ SampleIdle
    /\ PapersIdle
    /\ CisiIdle
    /\ PdfIdle
    /\ \E d \in AnalysedDatasets, l \in AnalysisLimits, f \in BOOLEAN :
          analysis = [docs |-> d, limit |-> l, faulty |-> f, pc |-> "load", i |-> 0,
                      st |-> AnalysisLocals, seen |-> <<>>, result |-> NoSummary]

not_analysis == <<wvars, jvars, svars, pvars, cvars, rvars>>

\* Lines 502-516: ir_datasets.load and docs_iter(); a raise is caught at
\* line 569.
AnalysisLoad ==
    /\ analysis.pc = "load"
    /\ \/ analysis' = [analysis EXCEPT !.pc = "loop", !.i = 0, !.st = AnalysisLocals]
       \/ /\ analysis.faulty
          /\ analysis' = [analysis EXCEPT !.pc = "returned", !.result = AnalysisError]
    /\ UNCHANGED not_analysis

\* One pass of the loop of lines 519-544, for the document at index i.
AnalysisDoc ==
    /\ analysis.pc = "loop"
    /\ analysis.i < Len(analysis.docs)
    /\ LET content == ContentOf(analysis.docs[analysis.i + 1])
           tokens == count_tokens(content.s)
       IN  IF CountRaises(content)
           THEN analysis' = [analysis EXCEPT
                                !.st = OnCountError(@, analysis.i),
                                !.seen = Append(@, [index |-> analysis.i, raised |-> TRUE,
                                                    tokens |-> 0]),
                                !.i = @ + 1]
           ELSE analysis' = [analysis EXCEPT
                                !.st = OnCounted(@, tokens),
                                !.seen = Append(@, [index |-> analysis.i, raised |-> FALSE,
                                                    tokens |-> tokens]),
                                !.i = IF ReachedLimit(analysis.limit, analysis.st.doc_count + 1)
                                      THEN @ ELSE @ + 1,
                                !.pc = IF ReachedLimit(analysis.limit, analysis.st.doc_count + 1)
                                       THEN "stats" ELSE "loop"]
    /\ UNCHANGED not_analysis

\* docs_iter is exhausted.
AnalysisExhausted ==
    /\ analysis.pc = "loop"
    /\ analysis.i >= Len(analysis.docs)
    /\ analysis' = [analysis EXCEPT !.pc = "stats"]
    /\ UNCHANGED not_analysis

\* Lines 546-566: the statistics are computed and returned.
AnalysisReturn ==
    /\ analysis.pc = "stats"
    /\ analysis' = [analysis EXCEPT !.pc = "returned", !.result = Statistics(analysis.st)]
    /\ UNCHANGED not_analysis

AnalysisNext == AnalysisLoad \/ AnalysisDoc \/ AnalysisExhausted \/ AnalysisReturn

AnalysisSpec == AnalysisInit /\ [][AnalysisNext]_vars




\* ------------------------------------------------------------------
\* Claims about extract_wikir_to_pdf, checked under Spec.

Returned == wpc = "returned"
ReturnedOk == wpc = "returned" /\ summary.status # "error"

HasErrorFor(k) == \E e \in 1..Len(errors) : errors[e].index = k

\* C1: a failure while processing one document never aborts the batch: every
\* document that raised (title preparation, rendering, saving) has an entry in
\* the error list, every document with an index below the limit is still
\* processed, and the returned summary's status is not "error".
C1_FailureNeverAborts ==
    /\ \A k \in threw \cup other_err : HasErrorFor(k)
    /\ wpc = "loop" => processed = 0..(i - 1)
    /\ (Returned /\ threw \cup other_err # {}) =>
          /\ summary.status # "error"
          /\ processed = 0..(Min(Len(dataset), limit) - 1)

\* A returned batch in which a document raised and the next one was processed.
C1_Witness ==
    /\ ReturnedOk
    /\ \E k \in threw : k + 1 \in processed /\ ~HasErrorFor(k + 1)

\* C2: every processed document counts as a success or as an error, never
\* both: with N documents processed, k of them raising during conversion
\* (rendering or saving) and no other error, docs_extracted = N - k,
\* errors_count = k, and status is "success" when N - k >= 1.
C2_SuccessXorError ==
    (ReturnedOk /\ other_err = {}) =>
        LET N == Cardinality(processed)
            k == Cardinality(threw)
        IN  /\ summary.docs_extracted = N - k
            /\ summary.errors_count = k
            /\ (N - k >= 1 => summary.status = "success")

\* The caller's limit as a number (None: no limit below the ceiling).
Requested == IF req_limit.isNone THEN MAX_DOCS ELSE req_limit.n

BothReturnedOk == run = 2 /\ ReturnedOk /\ prev.summary.status # "error"

\* What C4 says of the second call.
SecondRunIsSkipOnly ==
    /\ summary.files_created = prev.summary.files_created
    /\ summary.docs_extracted = Cardinality(processed)
    /\ processed = prev.processed
    /\ writes = 0
    /\ dir = prev.dir
    /\ summary.errors_count = 0

JobIds == 1..MaxJobs
Created(j) == j \in 1..Len(jobs)

\* C5: the status of every job of every type is running, completed or failed.
C5_StatusDomain ==
    \A j \in 1..Len(jobs) : jobs[j].status \in {"running", "completed", "failed"}

\* C6: for every job started with --wait, once its background task has
\* finished the client's polling loop eventually terminates.
C6_ClientTerminates ==
    \A j \in JobIds :
        (Created(j) /\ client[j] # "none" /\ task[j].pc = "done")
            ~> (Created(j) /\ client[j] = "exited")

\* The field a completed job of a type carries.
ResultFields(type) ==
    IF type = "wikir_analysis" THEN {"result"}
    ELSE IF type \in {"parquet", "cisi"} THEN {"file_count"}
    ELSE IF type = "ww2_wiki" THEN {"successful", "failed"}
    ELSE {}

\* C7: at every instant (GET jobs/{job_id} answers jobs[job_id] as it is at
\* that instant, between any two statements of the background thread), a
\* failed job carries its error and a completed job carries its result or
\* count field.
C7_TerminalStatusHasFields ==
    \A j \in 1..Len(jobs) :
        /\ jobs[j].status = "failed" => "error" \in jobs[j].fields
        /\ jobs[j].status = "completed" =>
               ResultFields(jobs[j].type) \subseteq jobs[j].fields

\* C8: every job created with status running eventually has another status,
\* and no task ends with the status still running.
C8_LeavesRunning ==
    /\ [](\A j \in 1..Len(jobs) : task[j].pc = "done" => jobs[j].status # "running")
    /\ \A j \in JobIds :
          (Created(j) /\ jobs[j].status = "running")
              ~> (Created(j) /\ jobs[j].status # "running")

\* A job whose task ended in its except clause after the extractor had
\* returned and the status had been set.
C8_Witness ==
    \E j \in 1..Len(jobs) :
        /\ task[j].pc = "done"
        /\ jobs[j].status = "failed"
        /\ "traceback" \in jobs[j].fields
        /\ "result" \in jobs[j].fields

\* ------------------------------------------------------------------
\* Claims about the sampling of extract_papers, checked under SampleSpec.

SameArgs(c, d) ==
    /\ calls[c].rows = calls[d].rows
    /\ calls[c].num_papers = calls[d].num_papers
    /\ calls[c].seed = calls[d].seed

\* C9: two calls, one after the other, with the same parquet file, the same
\* num_papers < rows and the same seed, each into an empty directory, write
\* the same file names with the same contents in the same order.
C9_SameSeedSameFiles ==
    \A c, d \in Calls :
        (/\ ~threaded
         /\ calls[c].pc = "done" /\ calls[d].pc = "done"
         /\ SameArgs(c, d)
         /\ calls[c].num_papers < calls[c].rows)
        => calls[c].out = calls[d].out

\* Two such calls, done, with a sample of at least two rows, where the
\* generator was left in another state than the one the seed gives.
C9_Witness ==
    /\ ~threaded
    /\ \A c \in Calls : calls[c].pc = "done"
    /\ SameArgs(1, 2)
    /\ calls[1].num_papers < calls[1].rows
    /\ Len(calls[1].out) >= 2
    /\ rng # Reseed(rng, calls[1].seed)

\* The row indices a call draws when it runs alone.
AloneIndices(c) ==
    PapersToExtract(calls[c].rows, calls[c].num_papers, Reseed(0, calls[c].seed)).indices

\* C10: whatever the interleaving of the calls' steps, each call draws the row
\* indices it draws when run alone.
C10_SampleIndependentOfOtherJobs ==
    \A c \in Calls :
        calls[c].pc \in {"write", "done"} => calls[c].indices = AloneIndices(c)

\* The rows of a table of n rows in stored order, as 0-based indices.
StoredOrder(n) == [x \in 1..n |-> x - 1]

Distinct(seq) == \A a, b \in 1..Len(seq) : a # b => seq[a] # seq[b]

\* C11: when num_papers >= the number of rows (equality included) every row
\* is extracted exactly once, in stored row order; otherwise exactly
\* num_papers distinct rows are extracted.
C11_AllRowsInOrderOrExactSample ==
    \A c \in Calls :
        calls[c].pc \in {"write", "done"} =>
            IF calls[c].num_papers >= calls[c].rows
            THEN calls[c].indices = StoredOrder(calls[c].rows)
            ELSE /\ Len(calls[c].indices) = calls[c].num_papers
                 /\ Distinct(calls[c].indices)

\* ------------------------------------------------------------------
\* Claims about extract_papers row by row, checked under PapersSpec.

\* The content column is decided: line 54 was passed, or line 52 raised.
Inferred == papers.pc \notin {"call", "load"}

\* A value that is neither null nor the empty string.
NonEmpty(v) == ~IsNa(v) /\ ~(IsStr(v) /\ v.s = <<>>)

\* The column at position k is string-typed and its first non-empty value is
\* longer than 100 characters.
FirstNonEmptyIsLong(df, k) ==
    \E r \in 1..Len(df.data) :
        /\ NonEmpty(df.data[r][k])
        /\ \A q \in 1..(r - 1) : ~NonEmpty(df.data[q][k])
        /\ IsStr(df.data[r][k])
        /\ Len(df.data[r][k].s) > 100

\* The content column as the claim describes it.
StatedContentColumn(df) ==
    LET named == {k \in 1..Len(possible_columns) : possible_columns[k] \in Elems(df.columns)}
        like == {k \in 1..Len(df.columns) : FirstNonEmptyIsLong(df, k)}
    IN  IF named # {} THEN possible_columns[CHOOSE k \in named : \A h \in named : k <= h]
        ELSE IF like # {} THEN df.columns[CHOOSE k \in like : \A h \in like : k <= h]
        ELSE NoColumn

\* C12: the content column is the first of text, content, markdown, mmd, body
\* that is a column; failing that, the first column in column order that is
\* string-typed and whose first non-empty value is longer than 100
\* characters. For columns [foo, bar] whose bar values are all strings longer
\* than 100 characters it is bar, whatever foo holds.
C12_ContentColumnInference ==
    Inferred =>
        /\ papers.content_column = StatedContentColumn(papers.df)
        /\ (/\ papers.df.columns = <<col_foo, col_bar>>
            /\ Len(papers.df.data) > 0
            /\ \A r \in 1..Len(papers.df.data) :
                   IsStr(papers.df.data[r][2]) /\ Len(papers.df.data[r][2].s) > 100)
           => papers.content_column = col_bar

\* C13: when no content column can be inferred, extract_papers raises before
\* any row is processed, no file is written, and the job that called it ends
\* with status failed and an error message.
C13_SchemaFailureIsFatal ==
    ContentColumn(papers.df) = NoColumn =>
        /\ papers.pc \in {"call", "load", "raised"}
        /\ papers.papers_to_extract = <<>>
        /\ papers.written = <<>>
        /\ jobs[1].status \in {"running", "failed"}
        /\ task[1].pc = "done" =>
               jobs[1].status = "failed" /\ "error" \in jobs[1].fields

\* A job over a table of two rows or more without a content column, ended.
C13_Witness ==
    /\ ContentColumn(papers.df) = NoColumn
    /\ Len(papers.df.data) >= 2
    /\ papers.num_papers >= 1
    /\ papers.pc = "raised"
    /\ task[1].pc = "done"
    /\ jobs[1].status = "failed"

\* The frame has one of the title columns.
HasTitleColumn(df) == \E c \in Elems(title_columns) : c \in Elems(df.columns)

\* The sanitized title of a row of a frame that has a title column.
SanitizedTitle(df, row) == CleanTitle(StrOf(row[ColIndex(df, TitleColumn(df))]))

\* "{k:04d}_{title}.md"
TitledName(k, title) == ZFill(DigitsOf(k), 4) \o <<"_">> \o title \o Ext

\* "paper_{k:04d}.md"
OrdinalName(k) == <<"p", "a", "p", "e", "r", "_">> \o ZFill(DigitsOf(k), 4) \o Ext

\* C14: the file of the sampled row with 1-based ordinal k is named
\* "{k:04d}_{sanitized title}.md" when a title column exists and the sanitized
\* title is non-empty, and "paper_{k:04d}.md" otherwise.
C14_FileNameScheme ==
    Inferred =>
        \A k \in 1..Len(papers.written) :
            LET df == papers.df
                row == df.data[papers.written[k].row + 1]
            IN  papers.written[k].name =
                    IF HasTitleColumn(df) /\ SanitizedTitle(df, row) # <<>>
                    THEN TitledName(k, SanitizedTitle(df, row))
                    ELSE OrdinalName(k)

\* The names of the columns a written file's front matter has a line for.
FrontMatterKeys(file) == {papers.df.columns[file.columns[e]] : e \in 1..Len(file.columns)}

\* The front matter is to hold the value: a string shorter than 1000
\* characters, or a scalar that is neither a string nor binary.
StatedInFrontMatter(v) ==
    /\ ~IsNa(v)
    /\ \/ IsStr(v) /\ Len(v.s) < 1000
       \/ v.kind \notin {"str", "bytes"}

\* C15: the front matter of every written file has a line for column c
\* exactly when c is not the content column, the row's value for c is
\* non-null and the value is a string shorter than 1000 characters or a
\* non-string, non-binary scalar.
C15_FrontMatterColumns ==
    Inferred =>
        \A k \in 1..Len(papers.written) :
            LET df == papers.df
                row == df.data[papers.written[k].row + 1]
            IN  \A c \in 1..Len(df.columns) :
                    df.columns[c] \in FrontMatterKeys(papers.written[k])
                        <=> (df.columns[c] # papers.content_column
                             /\ StatedInFrontMatter(row[c]))

\* The lines of a text.
LinesOf(text) == Split(text, "\n")

\* The envelope as lines: "---", one "key: value" line per entry, "---", an
\* empty line, then the lines of the body.
Envelope(entries, body) == <<Marker>> \o entries \o <<Marker, <<>> >> \o LinesOf(body)

\* The "key: value" entries of a file extract_papers wrote.
PaperEntries(file) ==
    LET row == papers.df.data[file.row + 1]
    IN  [e \in 1..Len(file.columns) |->
            KeyValue(papers.df.columns[file.columns[e]], StrOf(row[file.columns[e]]))]

\* C16: every file written has exactly the envelope "---", one "key: value"
\* line per metadata entry, "---", one empty line, then the body.
C16_Envelope ==
    Inferred =>
        \A k \in 1..Len(papers.written) :
            k <= papers.i =>
                LinesOf(papers.written[k].text)
                    = Envelope(PaperEntries(papers.written[k]), papers.written[k].body)

\* ------------------------------------------------------------------
\* Claims about convert_cisi_to_markdown, checked under CisiSpec.

\* The front matter of a file has the entry key: value.
HasEntry(file, key, value) ==
    \E e \in 1..Len(file.entries) :
        file.entries[e].key = key /\ file.entries[e].value = value

\* A marker line with inline content: ".", one letter, a space, then text.
IsInlineMarker(line) ==
    /\ Len(line) >= 4
    /\ line[1] = "."
    /\ line[2] \in Letters
    /\ line[3] = " "
    /\ Strip(SubSeq(line, 4, Len(line))) # <<>>

\* The value the front matter or body holds for a section code, or "none".
Rendered(file, code) ==
    IF code = code_W THEN file.body
    ELSE IF code = code_T THEN file.entries[2].value
    ELSE IF code = code_A THEN file.entries[3].value
    ELSE IF \E e \in 4..Len(file.entries) : file.entries[e].key = code
         THEN file.entries[CHOOSE e \in 4..Len(file.entries) : file.entries[e].key = code].value
         ELSE <<"n", "o", "n", "e">>

\* C17: for ".I 1\n.T Hello\n.A Bob\n.W Body text\n" exactly one file is
\* written, with doc_id: 1, title: Hello, author: Bob in the front matter and
\* the body "Body text"; in general the text that follows a section code on
\* the marker line belongs to that section.
C17_InlineSectionContent ==
    cisi.pc = "returned" =>
        /\ cisi.content = InlineExample =>
               /\ Len(cisi.written) = 1
               /\ HasEntry(cisi.written[1], <<"d", "o", "c", "_", "i", "d">>, <<"1">>)
               /\ HasEntry(cisi.written[1], <<"t", "i", "t", "l", "e">>,
                           <<"H", "e", "l", "l", "o">>)
               /\ HasEntry(cisi.written[1], <<"a", "u", "t", "h", "o", "r">>,
                           <<"B", "o", "b">>)
               /\ cisi.written[1].body = <<"B", "o", "d", "y", " ", "t", "e", "x", "t">>
        /\ \A k \in 1..Len(cisi.written) :
               LET lines == LinesOf(cisi.written[k].doc_content)
               IN  \A l \in 1..Len(lines) :
                       (/\ IsInlineMarker(lines[l])
                        /\ <<lines[l][2]>> # code_X
                        /\ \A q \in (l + 1)..Len(lines) :
                               ~(StartsWithDot(lines[q]) /\ Len(lines[q]) >= 2
                                 /\ lines[q][2] = lines[l][2]))
                       => LET text == Strip(SubSeq(lines[l], 4, Len(lines[l])))
                              got == Rendered(cisi.written[k], <<lines[l][2]>>)
                          IN  Len(got) >= Len(text) /\ SubSeq(got, 1, Len(text)) = text

\* The record-start markers at the start of a line of the input.
LineStartMarkers(s) ==
    {p \in 1..Len(s) : MarkerAt(s, p).matched /\ (p = 1 \/ s[p - 1] = "\n")}

\* C18: a new record starts only at a record-start marker at the start of a
\* line: the number of documents processed equals the number of such
\* markers, and ".I <digits>" inside a line does not split the record.
C18_RecordsStartAtLineStart ==
    cisi.pc = "returned" =>
        Len(cisi.written) = Cardinality(LineStartMarkers(cisi.content))

\* The section codes of a record in the order met: the trimmed remainders of
\* its lines that start with ".", the empty ones left out.
CodesMet(doc_content) ==
    LET lines == LinesOf(doc_content)
        marks == SelectSeq(lines, StartsWithDot)
        codes == [m \in 1..Len(marks) |-> Strip(Tail(marks[m]))]
    IN  SelectSeq(codes, LAMBDA c : c # <<>>)

\* A sequence without the later occurrences of its elements.
RECURSIVE FirstOccurrences(_)
FirstOccurrences(seq) ==
    IF seq = <<>> THEN <<>>
    ELSE LET init == FirstOccurrences(SubSeq(seq, 1, Len(seq) - 1))
         IN  IF seq[Len(seq)] \in Elems(init) THEN init ELSE Append(init, seq[Len(seq)])

\* C19: the front matter of every record lists doc_id, title, author first
\* and in that order, with title = section T or "Document {id}" when T is
\* absent, author = section A or "Unknown" and body = section W or empty; it
\* then lists exactly one entry for each other section code of the record, in
\* the order the codes were first met, and never one for T, A, W or X.
C19_FrontMatterOrder ==
    \A k \in 1..Len(cisi.written) :
        LET f == cisi.written[k]
            codes == CodesMet(f.doc_content)
            others == SelectSeq(FirstOccurrences(codes),
                                LAMBDA c : c \notin {code_T, code_A, code_W, code_X})
            section(c, default) ==
                IF c \in Elems(codes) THEN DictGet(f.sections, c, <<"?">>) ELSE default
        IN  /\ Len(f.entries) = 3 + Len(others)
            /\ f.entries[1] = [key |-> <<"d", "o", "c", "_", "i", "d">>, value |-> f.doc_id]
            /\ f.entries[2] = [key |-> <<"t", "i", "t", "l", "e">>,
                               value |-> section(code_T, DefaultTitle(f.doc_id))]
            /\ f.entries[3] = [key |-> <<"a", "u", "t", "h", "o", "r">>,
                               value |-> section(code_A, DefaultAuthor)]
            /\ f.body = section(code_W, <<>>)
            /\ \A e \in 1..Len(others) :
                   f.entries[3 + e] = [key |-> others[e],
                                      value |-> section(others[e], <<"?">>)]
            /\ f.text = Join(<<"\n">>,
                             <<Marker>>
                             \o [e \in 1..Len(f.entries) |->
                                    KeyValue(f.entries[e].key, f.entries[e].value)]
                             \o <<Marker, <<>>, f.body>>)

\* A record without a title section and with two other sections, written.
C19_Witness ==
    \E k \in 1..Len(cisi.written) :
        /\ Len(cisi.written[k].entries) = 5
        /\ cisi.written[k].entries[2].value = DefaultTitle(cisi.written[k].doc_id)
        /\ cisi.written[k].entries[4].key = <<"B">>

\* The files in the output directory: a file written again replaces the
\* file of that name.
DirectoryOf(written) == {written[k].name : k \in 1..Len(written)}

\* C20: within one extraction into an empty output directory every record
\* gets a file name different from that of every other record, so no file is
\* written twice and the directory holds as many files as records processed.
C20_UniqueFileNames ==
    /\ \A a, b \in 1..Len(cisi.written) :
           a # b => cisi.written[a].name # cisi.written[b].name
    /\ Cardinality(DirectoryOf(cisi.written)) = Len(cisi.written)

\* The part of a CISI file name between "cisi_<id>_" and ".md".
TitleFragment(file) ==
    SubSeq(file.name, Len(ZFill(file.doc_id, 4)) + 7, Len(file.name) - Len(Ext))

\* [A-Za-z0-9 _-]
StatedTitleChars == Letters \cup Digits \cup {" ", "_", "-"}

\* C21: for every title the sanitized title fragment of a file name contains
\* only characters of [A-Za-z0-9 _-] and is at most 100 characters long.
C21_SanitizedTitleChars ==
    \A k \in 1..Len(cisi.written) :
        /\ \A h \in 1..Len(TitleFragment(cisi.written[k])) :
               TitleFragment(cisi.written[k])[h] \in StatedTitleChars
        /\ Len(TitleFragment(cisi.written[k])) <= 100

\* The cells of one part of the page, in the order of emission.
CellsOf(part) == SelectSeq(pdf.cells, LAMBDA c : c.part = part)

\* The texts of the cells of one part, put end to end.
TextOf(part) == Join(<<>>, [k \in 1..Len(CellsOf(part)) |-> CellsOf(part)[k].txt])

SevenBit(s) == \A k \in 1..Len(s) : Ord(s[k]) < 128

\* C22: every character of the title text and of the body text handed to
\* the PDF renderer, for a wikir document and for a Wikipedia article, has a
\* code point below 128; the title is at most 80 characters long and the
\* body at most 50,000.
C22_SevenBitTitleAndBody ==
    pdf.pc # "off" =>
        /\ SevenBit(TextOf("title"))
        /\ SevenBit(TextOf("body"))
        /\ Len(TextOf("title")) <= 80
        /\ Len(TextOf("body")) <= 50000

\* The sanitized form of a character: a character outside ASCII and a
\* control character other than newline, carriage return and tab become a
\* space.
SanitizedChar(c) ==
    IF Ord(c) >= 128 \/ (Ord(c) < 32 /\ c \notin {"\n", "\r", "\t"}) THEN " " ELSE c

\* The number of characters of the body that the chunks emitted so far cover.
Covered == Min(pdf.idx * 1000, Min(Len(pdf.doc.text), 50000))

Successes == SelectSeq(analysis.seen, LAMBDA e : ~e.raised)

\* The text count_tokens was given for the document at an index.
TextAt(idx) == ContentOf(analysis.docs[idx + 1]).s

\* A word character: a letter, a digit or the underscore.
StatedWordChar(c) == c \in Letters \cup NonAsciiAlnum \cup Digits \cup {"_"}

\* The number of maximal runs of word characters: the positions where a run
\* starts.
WordRuns(s) ==
    Cardinality({k \in 1..Len(s) :
                    StatedWordChar(s[k]) /\ (k = 1 \/ ~StatedWordChar(s[k - 1]))})

\* C23: count_tokens(text) is the number of maximal runs of word characters
\* (letters, digits, underscore) of text, 0 for the empty string and 3 for
\* "Hello, World! 123".
C23_TokensAreWordRuns ==
    analysis.pc # "off" =>
        \A k \in 1..Len(Successes) :
            /\ Successes[k].tokens = WordRuns(TextAt(Successes[k].index))
            /\ TextAt(Successes[k].index) = <<>> => Successes[k].tokens = 0
            /\ TextAt(Successes[k].index) = HelloWorld => Successes[k].tokens = 3

\* "Hello, World! 123" was counted, and so was a text with an underscore
\* inside a word and one without any word character.
C23_Witness ==
    /\ analysis.pc = "returned"
    /\ \/ \E k \in 1..Len(Successes) :
              TextAt(Successes[k].index) = HelloWorld /\ Successes[k].tokens = 3
       \/ \E k \in 1..Len(Successes) :
              TextAt(Successes[k].index) = <<" ", "\t", "-">> /\ Successes[k].tokens = 0
    /\ \E k \in 1..Len(Successes) :
           /\ \E h \in 2..(Len(TextAt(Successes[k].index)) - 1) :
                  TextAt(Successes[k].index)[h] = "_"
           /\ Successes[k].tokens = 2

RECURSIVE SumTokens(_)
SumTokens(entries) ==
    IF entries = <<>> THEN 0 ELSE entries[1].tokens + SumTokens(Tail(entries))

\* The statistics of a returned analysis agree with the documents counted.
StatisticsAgree ==
    (analysis.pc = "returned" /\ analysis.result.status = "ok") =>
        LET r == analysis.result
            avg == r.average_tokens_per_doc
        IN  /\ \A k \in 1..Len(analysis.seen) :
                   analysis.seen[k].raised =>
                       \E e \in 1..Len(analysis.st.errors) :
                           analysis.st.errors[e].index = analysis.seen[k].index
            /\ r.document_count = Len(Successes)
            /\ r.total_tokens = SumTokens(Successes)
            /\ r.document_count > 0 => avg.num * r.document_count = r.total_tokens * avg.den
            /\ r.min_tokens * avg.den <= avg.num
            /\ avg.num <= r.max_tokens * avg.den
            /\ r.document_count = 0 => avg.num = 0 /\ r.min_tokens = 0 /\ r.max_tokens = 0

\* A pass of the loop over a document whose counting raises.
FailingPass ==
    /\ analysis.pc = "loop"
    /\ analysis.i < Len(analysis.docs)
    /\ CountRaises(ContentOf(analysis.docs[analysis.i + 1]))

\* C24: a document whose token counting raises is recorded in the error
\* list, leaves document_count, total_tokens, min and max as they were, and
\* the loop goes on with the next document; the result has total_tokens =
\* the sum of the counts of the documents processed successfully, average =
\* total_tokens / document_count, min <= average <= max, and average = min =
\* max = 0 when no document was processed.
C24_ErrorsDoNotStopAggregation ==
    /\ []StatisticsAgree
    /\ [][FailingPass =>
            /\ analysis'.st.errors = Append(analysis.st.errors, Err("doc", analysis.i))
            /\ analysis'.st.doc_count = analysis.st.doc_count
            /\ analysis'.st.total_tokens = analysis.st.total_tokens
            /\ analysis'.st.token_counts = analysis.st.token_counts
            /\ analysis'.pc = "loop"
            /\ analysis'.i = analysis.i + 1]_vars

\* A document that raised was followed by documents that were counted, and
\* the counts differ.
C24_Witness ==
    /\ analysis.pc = "returned"
    /\ analysis.result.status = "ok"
    /\ Len(analysis.seen) = 3
    /\ analysis.seen[1].raised
    /\ analysis.result.document_count = 2
    /\ analysis.result.min_tokens < analysis.result.max_tokens
    /\ Len(analysis.result.errors) = 1

\* C28: with a limit, analyze_wikir_dataset reports a document_count of at
\* most the limit, for every integer limit; with the limit 0 no document is
\* analysed.
C28_CountWithinLimit ==
    (analysis.pc = "returned" /\ analysis.result.status = "ok" /\ ~analysis.limit.isNone) =>
        /\ analysis.result.document_count <= analysis.limit.n
        /\ analysis.limit.n = 0 => analysis.seen = <<>>

\* C25: the errors list of the returned dict has at most 20 entries and
\* the files list at most 100, while errors_count in the dict and
\* errors_count on the job record both equal the number of per-document
\* errors, and total_files the number of files.
C25_FullCountsReported ==
    (wpc = "returned" /\ summary.status \in {"success", "warning"}) =>
        /\ Len(summary.errors) <= 20
        /\ Len(summary.files) <= 100
        /\ summary.errors_count = Len(errors)
        /\ summary.total_files = Len(files_created)
        /\ (job_record # NoRecord /\ job_record.with_errors) =>
               job_record.errors_count = Len(errors)

\* C26: once the status of a job has left running, no later step of its
\* background task changes it: a job seen as completed is never seen as
\* failed afterwards.
C26_FinalStatusIsKept ==
    [][\A j \in 1..Len(jobs) :
           jobs[j].status # "running" => jobs'[j].status = jobs[j].status]_vars

\* The downloads of a ww2 job that has fetched its titles and left the loop.
Ww2LoopDone(j) ==
    /\ jobs[j].type = "ww2_wiki"
    /\ task[j].pc = "done"
    /\ task[j].titles > 0

\* C29: a ww2 job that fetched no title ends failed without a download; a
\* job that fetched titles attempts each of them once, in order, successful
\* + failed is the number of titles, and the job ends completed if and only
\* if at least one download succeeded.
C29_Ww2Outcome ==
    \A j \in 1..Len(jobs) :
        /\ (jobs[j].type = "ww2_wiki" /\ task[j].titles = 0) =>
               /\ task[j].idx = 0
               /\ task[j].pc = "done" => jobs[j].status = "failed"
        /\ jobs[j].type = "ww2_wiki" =>
               /\ task[j].idx <= task[j].titles
               /\ task[j].successful + task[j].failed = task[j].idx
        /\ Ww2LoopDone(j) =>
               /\ task[j].idx = task[j].titles
               /\ jobs[j].status = "completed" <=> task[j].successful > 0
               /\ jobs[j].status \in {"completed", "failed"}

\* The code of a marker line.
CodeOf(line) == Strip(Tail(line))

\* The lines between the last marker line of a code and the next marker
\* line (or the end of the record), joined with newlines and trimmed.
StatedSectionText(lines, code) ==
    LET IsMarkerOf(k) == StartsWithDot(lines[k]) /\ CodeOf(lines[k]) = code
        m == CHOOSE k \in 1..Len(lines) :
                 IsMarkerOf(k) /\ \A h \in (k + 1)..Len(lines) : ~IsMarkerOf(h)
        later == {k \in (m + 1)..Len(lines) : StartsWithDot(lines[k])}
        next == IF later = {} THEN Len(lines) + 1
                ELSE CHOOSE k \in later : \A h \in later : k <= h
    IN  Strip(Join(<<"\n">>, SubSeq(lines, m + 1, next - 1)))

\* C27: the text stored for a section code is exactly the non-marker lines
\* between that section's marker line and the next marker line or the end of
\* the record; lines before the first marker of a record and lines after a
\* marker with an empty code are in no other section's text.
C27_SectionTextIsItsOwnLines ==
    \A k \in 1..Len(cisi.written) :
        \A e \in 1..Len(cisi.written[k].sections) :
            cisi.written[k].sections[e].value =
                StatedSectionText(Split(cisi.written[k].doc_content, "\n"),
                                  cisi.written[k].sections[e].key)

====
